---- MODULE Spec2Model ----
(***************************************************************************)
(* The per-connection session coordinator of the voice agent               *)
(* (src/main.py: handle_new_connection and process_user_message), with     *)
(* the conversation memory it writes to.                                   *)
(*                                                                         *)
(* The program runs on one asyncio event loop: a coroutine runs without    *)
(* interruption from one await to the next.  Every action below is the     *)
(* code one task executes between two suspension points.  A send to the    *)
(* client is written to the transport when it is called, and the caller    *)
(* is then suspended until the send returns.  The tasks of one session     *)
(* are the message loop of handle_new_connection, the STT callbacks        *)
(* (on_transcript, on_utterance_end), each of which the STT client may     *)
(* invoke while an earlier one is still suspended, and the tasks           *)
(* abort_current_response creates with asyncio.ensure_future.              *)
(*                                                                         *)
(* Text is a sequence of one-character strings.                            *)
(***************************************************************************)
EXTENDS Integers, Sequences, FiniteSets, TLC

\* Bounds of the model.
MaxEvents == 2      \* STT events and control messages the environment delivers
MaxFailures == 1    \* exceptions the LLM and TTS collaborators raise
MaxSlots == 2       \* callback tasks that can be inside on_utterance_end at once
MaxUtterances == 3  \* final transcripts delivered in the barge-in scenario
MaxTurnEvents == 1  \* transcripts delivered in the single-turn scenario
MaxWindowTurns == 11 \* utterances of the long conversation
MaxSignals == 2     \* STT events of the completion-signal scenario
MaxFaultTurns == 2  \* utterances of the failure scenario
MaxSentenceTurns == 1 \* utterances of the sentence-splitting scenario
MaxFaults == 2      \* exceptions the collaborators raise in the failure scenario
MaxStored == 22     \* messages added to the memory in the memory scenario
MaxThreshold == 4   \* values of summarize_after next to the shipped one
MaxCompactions == 2 \* calls of summarize_and_compact in the memory scenario
MaxFallbacks == 3   \* exceptions of the summarizer in the long conversation
MaxCompactEvents == 2 \* transcripts of the scenario with small thresholds
MaxRetryTurns == 1  \* utterances of the retry scenario
MaxRetryFaults == 2 \* calls that fail at every attempt in the retry scenario
MaxSttErrors == 2   \* Error events of the STT client in one session
MaxReconEvents == 2 \* STT events of the reconnect scenario
MaxReconFailures == 5 \* connection attempts that fail in the reconnect scenario
MaxCleanupEvents == 2 \* STT errors and the end of the session in the cleanup scenario
MaxCleanupFailures == 5 \* connection attempts that fail in the cleanup scenario
MaxHistory == 3     \* messages of a history handed to _to_anthropic_messages
MaxSessions == 2    \* session ids of the registry scenario
MaxRegistryCompactions == 1 \* calls of summarize_and_compact in the registry scenario
MaxRegistryClock == 4 \* readings of the clock in the registry scenario

\* audio_data[offset:offset + 4096]
ChunkSize == 4096
\* config["memory"]["max_messages"]
max_messages == 20

\* reconnect(self, max_attempts: int = 5)
max_attempts == 5
\* _with_retry(fn, max_retries=3, ...)
max_retries == 3

Sids == 1..MaxSessions
Slots == 1..MaxSlots
Handlers == 1..MaxSttErrors

(***************************************************************************)
(* str.strip(), the sentence-boundary pattern and the inputs.              *)
(***************************************************************************)
IsSpace(c) == c \in {" ", "\n"}

RECURSIVE LStrip(_)
LStrip(s) == IF s = <<>> THEN s
             ELSE IF IsSpace(Head(s)) THEN LStrip(Tail(s)) ELSE s

RECURSIVE RStrip(_)
RStrip(s) == IF s = <<>> THEN s
             ELSE IF IsSpace(s[Len(s)]) THEN RStrip(SubSeq(s, 1, Len(s) - 1)) ELSE s

Strip(s) == RStrip(LStrip(s))

\* SENTENCE_ENDERS.search(token): [.!?](?=\s|$)|\n
SENTENCE_ENDERS(token) ==
    \E i \in 1..Len(token) :
        \/ token[i] = "\n"
        \/ /\ token[i] \in {".", "!", "?"}
           /\ (i = Len(token) \/ IsSpace(token[i + 1]))

\* Transcripts the STT client hands to on_transcript (stt.py:85-103): it drops those
\* whose strip() is empty and passes the others on as they are.
Final(text, sf) == [text |-> text, is_final |-> TRUE, speech_final |-> sf]
Interim(text) == [text |-> text, is_final |-> FALSE, speech_final |-> FALSE]

VARIABLES
    scenario,           \* which inputs the environment draws from (never changes)
    utterance_buffer,   \* main.py:153
    is_processing,      \* main.py:154
    abort_event,        \* main.py:155, the asyncio.Event the closure refers to (its id)
    evset,              \* ids of the asyncio.Event objects that are set
    turn,               \* slot -> the on_utterance_end task in it and its turn's locals
    txq,                \* on_transcript tasks suspended in send_transcript, oldest first
    notifyQ,            \* ensure_future(send_json(audio_interrupted)) tasks not yet run
    ran,                \* tasks that have run since the oldest of those was created
    memory,             \* ConversationMemory.sessions[session_id]
    metrics,            \* LatencyMetrics.sessions[session_id]
    transcripts_sent,   \* number of transcript notifications written to the client
    mainpc,             \* position of the message loop of handle_new_connection
    evLeft,             \* events the environment may still deliver
    failLeft,           \* exceptions the collaborators may still raise
    nTurns,             \* asyncio.Event objects created after the first one = turns started
    tinfo,              \* history: per turn, what it was given, what it wrote to the
                        \* client (in order) and to the memory, and the calls it made
    pendingFrags,       \* history: fragments appended since the buffer was last emptied,
                        \* each with whether a turn was in flight when it was appended
    cleared,            \* history: a 'clear' was handled and no utterance dispatched since
    config,             \* config["memory"] (config.py:75-79)
    clock,              \* the next reading of time.time() and time.perf_counter()
    stt,                \* the DeepgramSTT of the session: is_connected, connection and
                        \* _keepalive_task (0 for None), and the keep-alive tasks running
    reconnects,         \* the on_stt_error tasks, one per Error event of the STT client
    memcall,            \* history: the last call of the scenario on the memory, with
                        \* what it returned or handed to summarize_fn
    registry            \* ConversationMemory.sessions and LatencyMetrics.sessions of
                        \* the process, by session id, and per session id the
                        \* summarize_and_compact call suspended in summarize_fn

vars == << scenario, utterance_buffer, is_processing, abort_event, evset, turn, txq, notifyQ, ran,
           memory, metrics, transcripts_sent, mainpc, evLeft, failLeft, nTurns, tinfo,
           pendingFrags, cleared, config, clock, stt, reconnects, memcall, registry >>

\* The transcripts of on_transcript, by scenario.
Results ==
    CASE scenario = "session" ->
             { Final(<<"a">>, FALSE), Final(<<" ", "b">>, TRUE), Interim(<<"a">>) }
      [] scenario = "barge" ->
             { Final(<<"a">>, TRUE), Final(<<"b">>, FALSE) }
      [] scenario = "reconnect" ->
             { Final(<<"a">>, FALSE) }
      [] OTHER ->
             { Final(<<"a">>, TRUE) }

\* Every way of cutting a text into consecutive non-empty tokens.
RECURSIVE Splits(_)
Splits(text) ==
    IF text = <<>> THEN { <<>> }
    ELSE UNION { { << SubSeq(text, 1, k) >> \o rest :
                     rest \in Splits(SubSeq(text, k + 1, Len(text))) } :
                 k \in 1..Len(text) }

\* A response of two sentences, the first with a decimal point in it.
SampleText == << "3", ".", "5", "?", " ", "Y", "." >>

\* The token streams of the LLM collaborator (tokens are non-empty strings).
Responses ==
    CASE scenario = "turn" ->
             { << <<"H", "i", ".">>, <<" ", "o", "k">> >>,
               << <<"N", "o">>, <<".", " ">>, <<"O", "k", "!">> >>,
               << <<" ">> >>,
               << >> }
      [] scenario = "sentence" -> Splits(SampleText)
      [] OTHER -> { << <<"H", "i", ".">>, <<" ", "o", "k">> >> }

\* What the remote call _with_retry wraps does, attempt by attempt: TRUE, it
\* returns; FALSE, it raises.  In the retry scenario it returns at the first
\* attempt, at the last one _with_retry makes, or only at the one after it.
Scripts ==
    IF scenario = "retry"
    THEN { [i \in 1..(max_retries + 2) |-> i > k] : k \in {0, max_retries, max_retries + 1} }
    ELSE { [i \in 1..(max_retries + 2) |-> TRUE], [i \in 1..(max_retries + 2) |-> FALSE] }

\* The lengths in bytes of the audio tts.synthesize returns.
AudioLens ==
    IF scenario = "turn"
    THEN { 0, 1, ChunkSize, ChunkSize + 1, 2 * ChunkSize }
    ELSE IF scenario = "session" THEN { ChunkSize }
    ELSE { ChunkSize + 1 }

\* The state as one record, so that the code of a handler composes as functions.
S == [ utterance_buffer |-> utterance_buffer, is_processing |-> is_processing,
       abort_event |-> abort_event, evset |-> evset, turn |-> turn, txq |-> txq,
       notifyQ |-> notifyQ, memory |-> memory, metrics |-> metrics,
       transcripts_sent |-> transcripts_sent, mainpc |-> mainpc, evLeft |-> evLeft,
       failLeft |-> failLeft, nTurns |-> nTurns, tinfo |-> tinfo,
       pendingFrags |-> pendingFrags, cleared |-> cleared, config |-> config,
       clock |-> clock, stt |-> stt, reconnects |-> reconnects, memcall |-> memcall,
       registry |-> registry ]

Set(r) ==
    /\ scenario' = scenario
    /\ utterance_buffer' = r.utterance_buffer
    /\ is_processing' = r.is_processing
    /\ abort_event' = r.abort_event
    /\ evset' = r.evset
    /\ turn' = r.turn
    /\ txq' = r.txq
    /\ notifyQ' = r.notifyQ
    /\ memory' = r.memory
    /\ metrics' = r.metrics
    /\ transcripts_sent' = r.transcripts_sent
    /\ mainpc' = r.mainpc
    /\ evLeft' = r.evLeft
    /\ failLeft' = r.failLeft
    /\ nTurns' = r.nTurns
    /\ tinfo' = r.tinfo
    /\ pendingFrags' = r.pendingFrags
    /\ cleared' = r.cleared
    /\ config' = r.config
    /\ clock' = r.clock
    /\ stt' = r.stt
    /\ reconnects' = r.reconnects
    /\ memcall' = r.memcall
    /\ registry' = r.registry

(***************************************************************************)
(* The event loop runs its ready callbacks in the order they were          *)
(* scheduled.  A task created with ensure_future is appended to them, so   *)
(* before it runs each task that was already ready gets one step, and a    *)
(* task that becomes ready later runs after it.                            *)
(***************************************************************************)
MainTask == << "main", 0 >>
STTTask == << "stt", 0 >>
TranscriptTask == << "on_transcript", 0 >>
TurnTask(s) == << "on_utterance_end", s >>

MayRun(k) == notifyQ = <<>> \/ k \notin ran

Step(k, r) ==
    /\ MayRun(k)
    /\ Set(r)
    /\ ran' = IF r.notifyQ = <<>> THEN {} ELSE ran \cup {k}


(***************************************************************************)
(* Records.                                                                *)
(***************************************************************************)
\* A slot with no task in it; the other values of pc are the awaits of
\* process_user_message at which the task in the slot is suspended.  session,
\* to_keep: the locals of summarize_and_compact while it awaits summarize_fn, the
\* session record being known by its created_at.  span (history):
\* the first and last position in the response text of what sentence_buffer held
\* when the sentence was taken from it.
IdleTurn ==
    [ pc |-> "idle", id |-> 0, stage |-> 0, user_message |-> <<>>, rest |-> <<>>,
      full_response |-> <<>>, sentence_buffer |-> <<>>, sentence |-> <<>>,
      is_first_sentence |-> TRUE, where |-> "loop", audio_len |-> 0, offset |-> 0,
      call |-> 0, span |-> << 0, 0 >>, session |-> 0, to_keep |-> <<>>,
      is_first_token |-> TRUE ]

\* A message a turn writes to the client. call, lo, hi: a binary frame
\* audio_data[lo:hi] of the turn's call-th synthesis. sig, noted: whether the turn's
\* signal was set, and its audio_interrupted written, when the frame was written.
Msg(type) ==
    [ type |-> type, call |-> 0, lo |-> 0, hi |-> 0, sig |-> FALSE, noted |-> FALSE,
      text |-> <<>> ]

NewInfo(msg, frags, stage) ==
    [ user_message |-> msg, frags |-> frags, stage |-> stage, tokens |-> <<>>,
      calls |-> <<>>,
      audios |-> <<>>, llm_failed |-> FALSE, tts_failed |-> FALSE, done |-> FALSE,
      mid_abort |-> FALSE, abort_call |-> 0, abort_requests |-> 0, notified |-> 0,
      compaction |-> "none", early_abort |-> FALSE, tries |-> <<>>,
      interrupted_sent |-> 0, finalized |-> FALSE,
      out |-> <<>>, writes |-> <<>>, full_response |-> <<>> ]

\* An on_stt_error task that has not started; the other values of pc are the awaits
\* at which it is suspended.  attempts, failures, delays, out (history): the calls of
\* connect it made and those that raised, the nominal delay of each attempt in
\* seconds, and the messages it wrote to the client.  wait: the sleep in progress, ms.
IdleHandler ==
    [ pc |-> "none", attempt |-> 0, wait |-> 0, attempts |-> 0, failures |-> 0,
      succeeded |-> FALSE, delays |-> <<>>, out |-> <<>> ]

INTERRUPTED == << " ", "[", "i", "n", "t", "e", "r", "r", "u", "p", "t", "e", "d", "]" >>

\* config["memory"] as shipped
ShippedConfig == [ max_messages |-> max_messages, use_summarization |-> FALSE,
                   summarize_after |-> 15 ]

(***************************************************************************)
(* WebSocketHandler and ConversationMemory.                                *)
(***************************************************************************)
\* The connection is closed when the client has closed it ("lost") or the handler
\* has returned ("closed").
ConnectionClosed(st) == st.mainpc \in {"lost", "closed"}

\* ws.send raises ConnectionClosed once the connection is closed, and send_json and
\* send_audio swallow it.
send(st, id, m) ==
    IF ConnectionClosed(st) THEN st
    ELSE [st EXCEPT !.tinfo[id].out =
                        Append(@, IF m.type # "audio" THEN m
                                  ELSE [m EXCEPT !.sig = id \in st.evset,
                                                 !.noted = st.tinfo[id].interrupted_sent > 0])]

create_session(st) ==
    [st EXCEPT !.memory = [exists |-> TRUE, messages |-> <<>>, summary |-> <<>>,
                           created_at |-> st.clock],
               !.clock = @ + 1]

clear_session(st) ==
    [st EXCEPT !.memory = [exists |-> FALSE, messages |-> <<>>, summary |-> <<>>,
                           created_at |-> 0]]

\* Variant: a message for a session without a record creates the record.
add_messageCreating(st, id, role, content) ==
    [st EXCEPT
        !.memory = [exists |-> TRUE,
                    messages |-> Append(st.memory.messages,
                                        [role |-> role, content |-> content,
                                         timestamp |-> st.clock]),
                    summary |-> st.memory.summary,
                    created_at |-> st.memory.created_at],
        !.clock = @ + 1,
        !.tinfo[id].writes = Append(@, [role |-> role, content |-> content])]

\* ConversationMemory.add_message; id (history): the turn that calls it, 0 if none
add_message(st, id, role, content) ==
    IF ~st.memory.exists THEN st
    ELSE [st EXCEPT
            !.memory.messages = Append(@, [role |-> role, content |-> content,
                                           timestamp |-> st.clock]),
            !.clock = @ + 1,
            !.tinfo = IF id \in DOMAIN @
                      THEN [@ EXCEPT ![id].writes =
                                         Append(@, [role |-> role, content |-> content])]
                      ELSE @]

\* A latency record {"cur", "n", "totals"}; cur with start = 0 is None, and a mark
\* that is 0 is None (a reading of the clock is never 0).
NoRequest == [ start |-> 0, stt |-> 0, llm1 |-> 0, llmc |-> 0, tts1 |-> 0, ttsc |-> 0 ]

NewMetrics ==
    [ exists |-> TRUE, n |-> 0, cur |-> NoRequest,
      totals |-> [ stt |-> 0, llm_first_token |-> 0, llm_complete |-> 0,
                   tts_first_chunk |-> 0, tts_complete |-> 0, end_to_end |-> 0 ] ]

\* LatencyMetrics.clear_session
metrics_clear_session(st) == [st EXCEPT !.metrics = [NewMetrics EXCEPT !.exists = FALSE]]

\* LatencyMetrics.start_request
start_request(st) ==
    IF ~st.metrics.exists THEN st
    ELSE [st EXCEPT !.metrics.cur = [NoRequest EXCEPT !.start = st.clock],
                    !.metrics.n = @ + 1,
                    !.clock = @ + 1]

\* Variant: a mark that is already set is written again.
markOverwriting(st, key) ==
    IF ~st.metrics.exists \/ st.metrics.cur.start = 0 THEN st
    ELSE [st EXCEPT !.metrics.cur[key] = st.clock, !.clock = @ + 1]

\* LatencyMetrics.mark_stt_complete, mark_llm_first_token, mark_llm_complete,
\* mark_tts_first_chunk and mark_tts_complete, by the key of cur they write
mark(st, key) ==
    IF ~st.metrics.exists \/ st.metrics.cur.start = 0 THEN st
    ELSE IF key \in {"llm1", "tts1"} /\ st.metrics.cur[key] # 0 THEN st
    ELSE [st EXCEPT !.metrics.cur[key] = st.clock, !.clock = @ + 1]

\* Variant: a mark that is missing counts as the reference it is measured from.
LatenciesOfMissingAsZero(c) ==
    LET ms(v, ref) == [null |-> FALSE, v |-> IF v # 0 THEN (v - ref) * 1000 ELSE 0,
                       raised |-> FALSE]
        stt_or_start == IF c.stt # 0 THEN c.stt ELSE c.start
        llmc_or_start == IF c.llmc # 0 THEN c.llmc ELSE c.start
    IN [ stt |-> ms(c.stt, c.start),
         llm_first_token |-> ms(c.llm1, stt_or_start),
         llm_complete |-> ms(c.llmc, stt_or_start),
         tts_first_chunk |-> ms(c.tts1, llmc_or_start),
         end_to_end |-> ms(c.ttsc, c.start) ]

\* main.py:94-105, the dict lat of finalize_request: _ms(v, ref) is None (null) when
\* v is, and v - ref raises TypeError when v is set and ref is None
Latencies(c) ==
    LET ms(v, ref) == [null |-> v = 0, v |-> IF v # 0 /\ ref # 0 THEN (v - ref) * 1000 ELSE 0,
                       raised |-> v # 0 /\ ref = 0]
        stt_or_start == IF c.stt # 0 THEN c.stt ELSE c.start
        llmc_or_start == IF c.llmc # 0 THEN c.llmc ELSE c.start
    IN [ stt |-> ms(c.stt, c.start),
         llm_first_token |-> ms(c.llm1, stt_or_start),
         llm_complete |-> ms(c.llmc, stt_or_start),
         tts_first_chunk |-> ms(c.tts1, llmc_or_start),
         end_to_end |-> ms(c.ttsc, c.start) ]

\* LatencyMetrics.finalize_request: a total grows by the latency that is not None;
\* an exception leaves the method before it has written anything
finalize_request(st) ==
    LET c == st.metrics.cur
        lat == Latencies(c)
    IN IF ~st.metrics.exists \/ c.start = 0 THEN st
       ELSE IF \E key \in DOMAIN lat : lat[key].raised THEN st
       ELSE [st EXCEPT
               !.metrics.totals =
                   [key \in DOMAIN @ |->
                       IF key \in DOMAIN lat /\ ~lat[key].null
                       THEN @[key] + lat[key].v ELSE @[key]],
               !.metrics.cur = NoRequest]

\* Variant: the oldest messages are kept.
FirstN(seq, n) ==
    IF Len(seq) > n THEN SubSeq(seq, 1, n) ELSE seq

LastN(seq, n) ==
    IF Len(seq) > n THEN SubSeq(seq, Len(seq) - n + 1, Len(seq)) ELSE seq

apply_window(st) ==
    IF ~st.memory.exists THEN st
    ELSE IF Len(st.memory.messages) > max_messages
         THEN [st EXCEPT !.memory.messages = LastN(@, max_messages)]
         ELSE st

\* The position a slice bound i denotes in a list of n items: a negative bound
\* counts from the end, and -0 is 0, the start of the list.
PyIndex(i, n) ==
    IF i < 0 THEN (IF i + n < 0 THEN 0 ELSE i + n)
    ELSE (IF i > n THEN n ELSE i)

\* Variant: every stored message is returned, not the most recent ones only.
get_historyUnwindowed(st) ==
    IF st.memory.summary # <<>>
    THEN << [role |-> "system", content |-> st.memory.summary] >>
         \o [k \in 1..Len(st.memory.messages) |->
                [role |-> st.memory.messages[k].role,
                 content |-> st.memory.messages[k].content]]
    ELSE [k \in 1..Len(st.memory.messages) |->
            [role |-> st.memory.messages[k].role,
             content |-> st.memory.messages[k].content]]

\* ConversationMemory.get_history: what it returns
get_history(st) ==
    IF ~st.memory.exists THEN <<>>
    ELSE LET messages == st.memory.messages
             recent == SubSeq(messages, PyIndex(-max_messages, Len(messages)) + 1,
                              Len(messages))
             prefix == << "P", "r", "e", "v", "i", "o", "u", "s", " ",
                          "c", "o", "n", "v", "e", "r", "s", "a", "t", "i", "o", "n", " ",
                          "s", "u", "m", "m", "a", "r", "y", ":", " " >>
             history == IF st.memory.summary # <<>>
                        THEN << [role |-> "system",
                                 content |-> prefix \o st.memory.summary] >>
                        ELSE <<>>
         IN history \o [k \in 1..Len(recent) |->
                           [role |-> recent[k].role, content |-> recent[k].content]]

\* conversation_memory.py:82-89: summarize_and_compact goes on to call summarize_fn
NeedsCompaction(st) ==
    st.memory.exists /\ Len(st.memory.messages) > st.config.summarize_after

\* conversation_memory.py:93-96
CompactionCut(st) ==
    LET messages == st.memory.messages
        keep_recent == st.config.summarize_after \div 2
    IN [ to_summarize |-> SubSeq(messages, 1, PyIndex(-keep_recent, Len(messages))),
         to_keep |-> SubSeq(messages, PyIndex(-keep_recent, Len(messages)) + 1,
                            Len(messages)) ]

\* conversation_memory.py:100-109: summarize_fn has returned summary
Summarized(st, to_keep, summary) ==
    [st EXCEPT !.memory.summary =
                   IF @ # <<>>
                   THEN @ \o << "\n", "\n", "U", "p", "d", "a", "t", "e", ":", " " >>
                          \o summary
                   ELSE summary,
               !.memory.messages = to_keep]

\* ConversationMemory.summarize_and_compact from call to return; raised: whether
\* summarize_fn raises, summary: what it returns otherwise
summarize_and_compact(st, raised, summary) ==
    IF ~NeedsCompaction(st) THEN st
    ELSE LET st1 == [st EXCEPT !.memcall = [op |-> "summarize_fn",
                                            ret |-> CompactionCut(st).to_summarize,
                                            raised |-> raised, summary |-> summary]]
         IN IF raised THEN apply_window(st1)
            ELSE Summarized(st1, CompactionCut(st).to_keep, summary)

\* self.sessions.get(session_id) of a registry, a dict by session id; none: the
\* record that stands for None
Get(sessions, sid, none) ==
    IF sid \in DOMAIN sessions THEN sessions[sid] ELSE none

\* self.sessions[session_id] and its removal: the dict with the record of
\* session_id replaced by r, without it when r does not exist
Put(sessions, sid, r) ==
    [b \in (IF r.exists THEN DOMAIN sessions \cup {sid} ELSE DOMAIN sessions \ {sid}) |->
        IF b = sid THEN r ELSE sessions[b]]

\* The records of session_id in both registries, on which the methods above act
Lookup(st, sid) ==
    [st EXCEPT !.memory = Get(st.registry.memory, sid, clear_session(st).memory),
               !.metrics = Get(st.registry.metrics, sid,
                               metrics_clear_session(st).metrics)]

\* Variant: the records of all session ids are one object.
StoredShared(st, sid, r) ==
    [r EXCEPT !.registry.memory = [b \in DOMAIN @ \cup {sid} |-> r.memory],
              !.registry.metrics = [b \in DOMAIN @ \cup {sid} |-> r.metrics],
              !.memory = st.memory, !.metrics = st.metrics]

\* Both registries after a method has acted on the records of session_id
Stored(st, sid, r) ==
    [r EXCEPT !.registry.memory = Put(@, sid, r.memory),
              !.registry.metrics = Put(@, sid, r.metrics),
              !.memory = st.memory, !.metrics = st.metrics]

(***************************************************************************)
(* abort_current_response                                                  *)
(***************************************************************************)
is_aborted(st, id) == id \in st.evset

\* History: where the turn in flight stood when its signal was set.
NoteAbort(st) ==
    LET id == st.abort_event
        ss == { s \in Slots : st.turn[s].pc # "idle" /\ st.turn[s].id = id }
    IN IF ss = {} \/ id = 0 THEN st
       ELSE LET t == st.turn[CHOOSE s \in ss : TRUE]
            IN [st EXCEPT
                  !.tinfo[id].mid_abort =
                      /\ \/ t.pc \in {"llm", "speaking"}
                         \/ t.pc \in {"tts", "chunk"} /\ t.where = "loop"
                      /\ t.rest # <<>>
                      /\ Strip(t.full_response) # <<>>,
                  !.tinfo[id].abort_call =
                      IF t.pc = "tts" /\ t.where \in {"loop", "last"}
                      THEN t.call ELSE 0,
                  !.tinfo[id].early_abort = (t.pc = "summarize"),
                  !.tinfo[id].notified = @ + 1]

\* Variant: the signal is not tested before it is set.
ShouldAbortRepeated(st) == st.is_processing

\* Variant: the signal is set whether or not a turn is in flight.
ShouldAbortIdle(st) == st.abort_event \notin st.evset

\* main.py:159-161
ShouldAbort(st) == st.abort_event \notin st.evset /\ st.is_processing

\* History: the calls of abort_current_response while a turn is in flight.
NoteRequest(st) ==
    IF st.is_processing /\ st.abort_event \in 1..Len(st.tinfo)
    THEN [st EXCEPT !.tinfo[st.abort_event].abort_requests = @ + 1]
    ELSE st

\* stt.py:166-170, disconnect() up to its first await: the keep-alive task the
\* client refers to is cancelled
DisconnectCalled(st) == [st EXCEPT !.stt.tasks = @ \ {st.stt.keepalive_task}]

\* stt.py:170-181, disconnect() from its first await to its return
Disconnected(st) ==
    [st EXCEPT !.stt.keepalive_task = 0, !.stt.connection = 0, !.stt.is_connected = FALSE]

\* main.py:122-127; round() of a quotient of integers rounds a half to the even
\* neighbour
get_session_stats(st) ==
    LET n == st.metrics.n
        round(v) == LET q == v \div n
                        r == v % n
                    IN IF 2 * r < n \/ (2 * r = n /\ q % 2 = 0) THEN q ELSE q + 1
    IN IF ~st.metrics.exists \/ n = 0
       THEN [ null |-> TRUE, request_count |-> 0, avg_latency |-> NewMetrics.totals ]
       ELSE [ null |-> FALSE, request_count |-> n,
              avg_latency |-> [k \in DOMAIN st.metrics.totals |-> round(st.metrics.totals[k])] ]

\* main.py:157-164
abort_current_response(st) ==
    IF ShouldAbort(st)
    THEN NoteAbort(NoteRequest([st EXCEPT !.evset = @ \cup {st.abort_event},
                                          !.notifyQ = Append(@, st.abort_event)]))
    ELSE NoteRequest(st)

(***************************************************************************)
(* _with_retry (tts.py:23-41, provider.py:26-44).  The sleep between two   *)
(* attempts changes no state and is not a step of its own.                 *)
(***************************************************************************)
\* Variant: the call is repeated until it returns or the script ends.
with_retryUnbounded(script, attempt) ==
    IF \E i \in DOMAIN script : script[i]
    THEN [ok |-> TRUE,
          attempts |-> CHOOSE i \in DOMAIN script :
                           script[i] /\ \A j \in 1..(i - 1) : ~script[j]]
    ELSE [ok |-> FALSE, attempts |-> Len(script)]

\* for attempt in range(max_retries + 1): whether fn returned, and the calls made
RECURSIVE with_retry(_, _)
with_retry(script, attempt) ==
    IF script[attempt + 1] THEN [ok |-> TRUE, attempts |-> attempt + 1]
    ELSE IF attempt = max_retries THEN [ok |-> FALSE, attempts |-> attempt + 1]
    ELSE with_retry(script, attempt + 1)

\* History, kept in the retry scenario: a call through _with_retry, with the first
\* attempt at which the remote call would return (0: at none).
NoteTry(st, id, kind, script) ==
    LET first == IF \E i \in DOMAIN script : script[i]
                 THEN CHOOSE i \in DOMAIN script :
                          script[i] /\ \A j \in 1..(i - 1) : ~script[j]
                 ELSE 0
    IN IF scenario # "retry" THEN st
       ELSE
       [st EXCEPT !.tinfo[id].tries =
                      Append(@, [kind |-> kind, first |-> first,
                                 attempts |-> with_retry(script, 0).attempts,
                                 ok |-> with_retry(script, 0).ok])]

\* provider.py:204, 247: the stream is created when its first item is awaited
Opened(st, s, script) ==
    IF \E k \in DOMAIN st.tinfo[st.turn[s].id].tries :
           st.tinfo[st.turn[s].id].tries[k].kind = "llm"
    THEN st
    ELSE NoteTry(st, st.turn[s].id, "llm", script)

(***************************************************************************)
(* process_user_message, from one await to the next.                       *)
(***************************************************************************)
SetT(st, s, t) == [st EXCEPT !.turn[s] = t]

\* Variant: the signal is not tested before the first message is sent.
FirstCheckpointUntested(st, s) ==
    send(SetT(st, s, [st.turn[s] EXCEPT !.pc = "thinking"]), st.turn[s].id,
         Msg("thinking"))

\* main.py:316-324: the first checkpoint; pc "returned": process_user_message returns
FirstCheckpoint(st, s) ==
    LET t == st.turn[s]
    IN IF is_aborted(st, t.id)
       THEN SetT(st, s, [t EXCEPT !.pc = "returned"])
       ELSE send(SetT(st, s, [t EXCEPT !.pc = "thinking"]), t.id, Msg("thinking"))

\* main.py:308-324, up to the first await: that of summarize_fn
\* (conversation_memory.py:99) or of the first send
process_user_message(st, s, id, msg, stage) ==
    LET st1 == add_message(st, id, "user", msg)
        t == [IdleTurn EXCEPT !.id = id, !.stage = stage, !.user_message = msg]
    IN IF ~st.config.use_summarization
       THEN FirstCheckpoint(SetT(apply_window(st1), s, t), s)
       ELSE IF ~NeedsCompaction(st1)
            THEN FirstCheckpoint(SetT(st1, s, t), s)
            ELSE [SetT(st1, s, [t EXCEPT !.pc = "summarize",
                                         !.session = st1.memory.created_at,
                                         !.to_keep = CompactionCut(st1).to_keep])
                    EXCEPT !.tinfo[id].calls =
                               Append(@, [kind |-> "summarize",
                                          sig |-> is_aborted(st1, id),
                                          call |-> 0, text |-> <<>>,
                                          span |-> << 0, 0 >>])]

\* Variant: the test of is_processing is left out.
CanDispatchReentrant(st) == Strip(st.utterance_buffer) # <<>>

\* main.py:196
CanDispatch(st) == Strip(st.utterance_buffer) # <<>> /\ ~st.is_processing

\* main.py:197-207 and 214-223
StartTurn(st, s, stage) ==
    LET msg == Strip(st.utterance_buffer)
        id == st.nTurns + 1
        st1 == [st EXCEPT !.utterance_buffer = <<>>,
                          !.is_processing = TRUE,
                          !.abort_event = id,
                          !.nTurns = id,
                          !.tinfo = Append(@, NewInfo(msg, st.pendingFrags, stage)),
                          !.pendingFrags = <<>>,
                          !.cleared = FALSE]
    IN process_user_message(mark(start_request(st1), "stt"), s, id, msg, stage)

\* Variant: the second finally leaves is_processing set.
EndSecondBusy(st, s) == [st EXCEPT !.turn[s] = IdleTurn]

\* main.py:224-225
EndSecond(st, s) ==
    [st EXCEPT !.is_processing = FALSE, !.turn[s] = IdleTurn]

\* main.py:213-223
StartSecond(st, s) ==
    LET r == StartTurn(st, s, 2)
    IN IF r.turn[s].pc = "returned" THEN EndSecond(r, s) ELSE r

\* main.py:208-225
EndFirst(st, s) ==
    LET st1 == [st EXCEPT !.is_processing = FALSE]
    IN IF Strip(st1.utterance_buffer) # <<>>
       THEN StartSecond(st1, s)
       ELSE SetT(st1, s, IdleTurn)

\* main.py:196-207
StartFirst(st, s) ==
    LET r == StartTurn(st, s, 1)
    IN IF r.turn[s].pc = "returned" THEN EndFirst(r, s) ELSE r

FreeSlots(st) == { s \in Slots : st.turn[s].pc = "idle" }
FreeSlot(st) == CHOOSE s \in FreeSlots(st) : \A r \in FreeSlots(st) : s <= r

\* Variant: the buffer is not tested before the dispatch.
on_utterance_endUnchecked(st) ==
    IF ~st.is_processing THEN StartFirst(st, FreeSlot(st)) ELSE st

\* main.py:194-225 up to its first await
on_utterance_end(st) ==
    IF CanDispatch(st) THEN StartFirst(st, FreeSlot(st)) ELSE st

\* process_user_message returns to on_utterance_end
Return(st, s) ==
    LET t == st.turn[s]
        st1 == [st EXCEPT !.tinfo[t.id].done = TRUE,
                          !.tinfo[t.id].full_response = t.full_response]
    IN IF t.stage = 1 THEN EndFirst(st1, s) ELSE EndSecond(st1, s)

\* tts.synthesize(text) is called
CallTTS(st, s, text, where) ==
    LET t == st.turn[s]
    IN [SetT(st, s, [t EXCEPT !.pc = "tts", !.where = where, !.sentence = text,
                              !.call = @ + 1, !.audio_len = 0, !.offset = 0])
          EXCEPT !.tinfo[t.id].calls =
                     Append(@, [kind |-> where, sig |-> is_aborted(st, t.id),
                                call |-> t.call + 1, text |-> text,
                                span |-> IF where = "fb" THEN << 0, 0 >> ELSE t.span])]

\* Variant: the audio_end message is left out.
FinishSilently(st, s) == SetT(st, s, [st.turn[s] EXCEPT !.pc = "audio_end"])

\* main.py:396-399
Finish(st, s) ==
    LET t == st.turn[s]
        st1 == mark(st, "ttsc")
        st2 == finalize_request(st1)
        st3 == [st2 EXCEPT !.tinfo[t.id].finalized = st2.metrics.totals # st1.metrics.totals]
    IN send(SetT(st3, s, [t EXCEPT !.pc = "audio_end"]), t.id, Msg("audio_end"))

\* Variant: what is left in the sentence buffer is not synthesized.
PostLoopWithoutFlush(st, s) == Finish(mark(st, "llmc"), s)

\* main.py:380-394, reached at the end of the stream and by the break of line 363
PostLoop(st, s) ==
    LET t == st.turn[s]
        span == << Len(t.full_response) - Len(t.sentence_buffer) + 1,
                   Len(t.full_response) >>
        st1 == mark(st, "llmc")
    IN IF Strip(t.sentence_buffer) # <<>> /\ ~is_aborted(st, t.id)
       THEN CallTTS(SetT(st1, s, [t EXCEPT !.span = span]), s,
                    Strip(t.sentence_buffer), "last")
       ELSE Finish(st1, s)

\* main.py:361-367
SentenceCheckpoint(st, s) ==
    LET t == st.turn[s]
    IN IF is_aborted(st, t.id) THEN PostLoop(st, s)
       ELSE CallTTS(st, s, t.sentence, "loop")

\* What follows a synthesis call and the delivery of its audio.
AfterAudio(st, s) ==
    LET t == st.turn[s]
    IN CASE t.where = "loop" -> SetT(st, s, [t EXCEPT !.pc = "llm"])
         [] t.where = "last" -> Finish(st, s)
         [] OTHER -> Return(st, s)

Min(a, b) == IF a < b THEN a ELSE b

\* main.py:373-374, 390-391, 422-423
SendChunk(st, s, offset) ==
    LET t == st.turn[s]
    IN send(SetT(st, s, [t EXCEPT !.pc = "chunk", !.offset = offset]),
            t.id,
            [Msg("audio") EXCEPT !.call = t.call, !.lo = offset,
                                 !.hi = Min(offset + ChunkSize, t.audio_len)])

\* Variant: the signal is not tested after the synthesis call has returned.
ForwardAudioUnchecked(st, s, len) == len > 0

\* main.py:368, 386 and 419
ForwardAudio(st, s, len) ==
    LET t == st.turn[s]
    IN IF t.where = "fb" THEN len > 0 ELSE ~is_aborted(st, t.id) /\ len > 0

\* Variant: the offset advances by one byte more than a chunk holds.
NextOffsetSkipping(offset) == offset + ChunkSize + 1

\* main.py:375, 392, 424
NextOffset(offset) == offset + ChunkSize

\* main.py:337-363, one token of the stream
OnToken(st0, s) ==
    LET st == IF st0.turn[s].is_first_token
              THEN SetT(mark(st0, "llm1"), s,
                        [st0.turn[s] EXCEPT !.is_first_token = FALSE])
              ELSE st0
        t == st.turn[s]
        token == Head(t.rest)
        sb == t.sentence_buffer \o token
        t1 == [t EXCEPT !.rest = Tail(@), !.full_response = @ \o token]
    IN IF is_aborted(st, t.id)
       THEN send(SetT(st, s, [t EXCEPT !.rest = Tail(@), !.pc = "int_end"]),
                 t.id, Msg("audio_end"))
       ELSE IF SENTENCE_ENDERS(token) /\ Strip(sb) # <<>>
            THEN LET t2 == [t1 EXCEPT !.sentence = Strip(sb), !.sentence_buffer = <<>>,
                                      !.span = << Len(t1.full_response) - Len(sb) + 1,
                                                  Len(t1.full_response) >>]
                 IN IF t.is_first_sentence
                    THEN send(SetT(st, s, [t2 EXCEPT !.pc = "speaking",
                                                     !.is_first_sentence = FALSE]),
                              t.id, Msg("speaking"))
                    ELSE SentenceCheckpoint(SetT(st, s, t2), s)
            ELSE SetT(st, s, [t1 EXCEPT !.sentence_buffer = sb, !.pc = "llm"])

\* main.py:416, the fixed sentence of the fallback (abbreviated)
APOLOGY == << "s", "o", "r", "r", "y" >>

(***************************************************************************)
(* The session after handle_new_connection has connected the STT client.   *)
(***************************************************************************)
StartWith(sc, events, failures, cfg) ==
    /\ scenario = sc
    /\ utterance_buffer = <<>>
    /\ is_processing = FALSE
    /\ abort_event = 0
    /\ evset = {}
    /\ turn = [s \in Slots |-> IdleTurn]
    /\ txq = <<>>
    /\ notifyQ = <<>>
    /\ ran = {}
    /\ memory = [exists |-> TRUE, messages |-> <<>>, summary |-> <<>>, created_at |-> 0]
    /\ metrics = NewMetrics
    /\ transcripts_sent = 0
    /\ mainpc = "loop"
    /\ evLeft = events
    /\ failLeft = failures
    /\ nTurns = 0
    /\ tinfo = <<>>
    /\ pendingFrags = <<>>
    /\ cleared = FALSE
    /\ config = cfg
    /\ clock = 1
    /\ stt = [is_connected |-> TRUE, connection |-> 1, keepalive_task |-> 1,
              tasks |-> {1}, opened |-> 1, created |-> 1]
    /\ reconnects = [h \in (IF sc = "reconnect" THEN Handlers ELSE {}) |-> IdleHandler]
    /\ memcall = [op |-> "none", ret |-> <<>>]
    /\ registry = [ memory |-> <<>>, metrics |-> <<>>, frames |-> <<>> ]

Start(sc, events, failures) == StartWith(sc, events, failures, ShippedConfig)

\* The STT connection delivers events until stt.disconnect() has returned.
STTConnected == mainpc \in {"loop", "end_disc", "lost"}

\* A handler that would start a turn needs a slot to run in.
HasSlot(st) == CanDispatch(st) => FreeSlots(st) # {}

(***************************************************************************)
(* STT callbacks.                                                          *)
(***************************************************************************)
\* Variant: only a final transcript interrupts the response.
OnTranscriptFinalOnly(r) ==
    /\ STTConnected
    /\ evLeft > 0
    /\ LET st1 == IF is_processing /\ r.is_final /\ Strip(r.text) # <<>>
                  THEN abort_current_response(S) ELSE S
           st2 == [st1 EXCEPT !.transcripts_sent =
                                  IF ConnectionClosed(st1) THEN @ ELSE @ + 1,
                              !.txq = Append(@, r),
                              !.evLeft = @ - 1]
       IN Step(STTTask, st2)

\* main.py:169-175: on_transcript up to the await of send_transcript
OnTranscript(r) ==
    /\ STTConnected
    /\ evLeft > 0
    /\ LET st1 == IF is_processing /\ Strip(r.text) # <<>>
                  THEN abort_current_response(S) ELSE S
           st2 == [st1 EXCEPT !.transcripts_sent =
                                  IF ConnectionClosed(st1) THEN @ ELSE @ + 1,
                              !.txq = Append(@, r),
                              !.evLeft = @ - 1]
       IN Step(STTTask, st2)

\* Variant: fragments are appended without a separator.
AppendFragmentUnspaced(st, text) ==
    [st EXCEPT !.utterance_buffer = @ \o text,
               !.pendingFrags = Append(@, [text |-> text, busy |-> st.is_processing])]

\* main.py:177-178
AppendFragment(st, text) ==
    LET sep == IF st.utterance_buffer # <<>> THEN << " " >> ELSE <<>>
    IN [st EXCEPT !.utterance_buffer = @ \o sep \o text,
                  !.pendingFrags = Append(@, [text |-> text, busy |-> st.is_processing])]

\* main.py:176-184: on_transcript after send_transcript has returned
OnTranscriptResumed ==
    /\ txq # <<>>
    /\ LET r == Head(txq)
           st1 == [S EXCEPT !.txq = Tail(@)]
           st2 == IF r.is_final THEN AppendFragment(st1, r.text) ELSE st1
       IN /\ (r.is_final /\ r.speech_final) => HasSlot(st2)
          /\ Step(TranscriptTask,
                  IF r.is_final /\ r.speech_final THEN on_utterance_end(st2) ELSE st2)

\* stt.py:105-108, main.py:194-207: the UtteranceEnd event
OnUtteranceEnd ==
    /\ STTConnected
    /\ evLeft > 0
    /\ HasSlot(S)
    /\ Step(STTTask, on_utterance_end([S EXCEPT !.evLeft = @ - 1]))

\* main.py:164: the task ensure_future created runs
SendAudioInterrupted ==
    /\ notifyQ # <<>>
    /\ Set([S EXCEPT !.notifyQ = Tail(@),
                     !.tinfo[Head(notifyQ)].interrupted_sent =
                         IF ConnectionClosed(S) THEN @ ELSE @ + 1])
    /\ ran' = {}

(***************************************************************************)
(* The message loop of handle_new_connection.                              *)
(***************************************************************************)
\* main.py:257-258
Interrupt ==
    /\ mainpc = "loop"
    /\ evLeft > 0
    /\ Step(MainTask, abort_current_response([S EXCEPT !.evLeft = @ - 1]))

\* main.py:252-256
Clear ==
    /\ mainpc = "loop"
    /\ evLeft > 0
    /\ Step(MainTask, [create_session(clear_session(
                           abort_current_response([S EXCEPT !.evLeft = @ - 1])))
                          EXCEPT !.cleared = TRUE])

\* main.py:245-248, up to the await of stt.disconnect()
End ==
    /\ mainpc = "loop"
    /\ evLeft > 0
    /\ Step(MainTask, [DisconnectCalled(abort_current_response([S EXCEPT !.evLeft = @ - 1]))
                          EXCEPT !.mainpc = "end_disc"])

\* main.py:249-251 and 267-269, up to the await of stt.disconnect()
EndCleared ==
    /\ mainpc = "end_disc"
    /\ Step(MainTask,
            [DisconnectCalled(abort_current_response(
                     metrics_clear_session(clear_session(Disconnected(S)))))
                EXCEPT !.mainpc = "fin_disc"])

\* main.py:232, 262-269: the client closes the connection, the loop ends; up to the
\* await of stt.disconnect()
Disconnect ==
    /\ mainpc = "loop"
    /\ evLeft > 0
    /\ Step(MainTask, DisconnectCalled(abort_current_response(
                           [S EXCEPT !.evLeft = @ - 1, !.mainpc = "lost"])))

\* main.py:271-281; the connection is closed when the handler returns
Finalized ==
    /\ mainpc \in {"fin_disc", "lost"}
    /\ Step(MainTask, [metrics_clear_session(clear_session(Disconnected(S)))
                          EXCEPT !.mainpc = "closed"])

(***************************************************************************)
(* The steps of a turn: the task in slot s resumes.                        *)
(***************************************************************************)
At(s, pc) == turn[s].pc = pc

\* What llm.summarize returns (provider.py:129-160); content or "" may be empty.
Summaries == { <<>>, << "s" >> }

\* conversation_memory.py:99 returned; 100-109; main.py:316-324.  The assignments
\* go to the record the call looked up, which a 'clear' or the cleanup replaces.
SummarizeReturn(s) ==
    /\ At(s, "summarize")
    /\ \E summary \in Summaries, script \in Scripts :
          LET t == turn[s]
              st1 == [NoteTry(S, t.id, "summarize", script)
                         EXCEPT !.tinfo[t.id].compaction = "done"]
              st2 == IF memory.exists /\ memory.created_at = t.session
                     THEN Summarized(st1, t.to_keep, summary)
                     ELSE st1
              r == FirstCheckpoint(st2, s)
          IN /\ with_retry(script, 0).ok
             /\ Step(TurnTask(s), IF r.turn[s].pc = "returned" THEN Return(r, s) ELSE r)

\* Variant: the exception of summarize_fn is not caught in summarize_and_compact.
SummarizeRaiseUncaught(s) ==
    /\ At(s, "summarize")
    /\ failLeft > 0
    /\ Step(TurnTask(s), send([SetT(S, s, [turn[s] EXCEPT !.pc = "err"])
                   EXCEPT !.failLeft = @ - 1,
                          !.tinfo[turn[s].id].compaction = "failed"],
                turn[s].id, Msg("error")))

\* conversation_memory.py:99 raises; 110-112; main.py:316-324
SummarizeRaise(s) ==
    /\ At(s, "summarize")
    /\ failLeft > 0
    /\ \E script \in Scripts :
          LET t == turn[s]
              st1 == apply_window([NoteTry(S, t.id, "summarize", script)
                                      EXCEPT !.failLeft = @ - 1,
                                             !.tinfo[t.id].compaction = "failed"])
              r == FirstCheckpoint(st1, s)
          IN /\ ~with_retry(script, 0).ok
             /\ Step(TurnTask(s), IF r.turn[s].pc = "returned" THEN Return(r, s) ELSE r)

\* main.py:324 returned; 331-335
ThinkingSent(s) ==
    /\ At(s, "thinking")
    /\ Step(TurnTask(s), send(SetT(S, s, [turn[s] EXCEPT !.pc = "audio_start"]),
                turn[s].id, Msg("audio_start")))

\* main.py:335 returned; 337: llm.stream_response(history) is opened
AudioStartSent(s) ==
    /\ At(s, "audio_start")
    /\ \E r \in Responses :
          Step(TurnTask(s), [SetT(S, s, [turn[s] EXCEPT !.pc = "llm", !.rest = r])
                 EXCEPT !.tinfo[turn[s].id].tokens = r,
                        !.tinfo[turn[s].id].calls =
                            Append(@, [kind |-> "llm",
                                       sig |-> is_aborted(S, turn[s].id),
                                       call |-> 0, text |-> <<>>,
                                       span |-> << 0, 0 >>])])

\* main.py:337-367: the stream yields a token
LLMToken(s) ==
    /\ At(s, "llm")
    /\ turn[s].rest # <<>>
    /\ \E script \in Scripts :
          /\ with_retry(script, 0).ok
          /\ Step(TurnTask(s), OnToken(Opened(S, s, script), s))

\* main.py:337, 380-399: the stream ends
LLMEnd(s) ==
    /\ At(s, "llm")
    /\ turn[s].rest = <<>>
    /\ \E script \in Scripts :
          /\ with_retry(script, 0).ok
          /\ Step(TurnTask(s), PostLoop(Opened(S, s, script), s))

\* main.py:337 raises, when no attempt to create the stream succeeds or when the
\* stream breaks; 411-413
LLMRaise(s) ==
    /\ At(s, "llm")
    /\ failLeft > 0
    /\ \E script \in Scripts :
          Step(TurnTask(s), send([SetT(Opened(S, s, script), s,
                                       [turn[s] EXCEPT !.pc = "err"])
                   EXCEPT !.failLeft = @ - 1,
                          !.tinfo[turn[s].id].llm_failed = TRUE],
                turn[s].id, Msg("error")))

\* main.py:344 returned; 345-347
InterruptedEndSent(s) ==
    /\ At(s, "int_end")
    /\ LET t == turn[s]
           st1 == IF Strip(t.full_response) # <<>>
                  THEN add_message(S, t.id, "assistant", t.full_response \o INTERRUPTED)
                  ELSE S
       IN Step(TurnTask(s), Return(st1, s))

\* main.py:358 returned; 359-367
SpeakingSent(s) ==
    /\ At(s, "speaking")
    /\ Step(TurnTask(s), SentenceCheckpoint(S, s))

\* main.py:367, 385, 415: tts.synthesize returns audio_data
TTSReturn(s) ==
    /\ At(s, "tts")
    /\ \E len \in AudioLens, script \in Scripts :
          LET t == [turn[s] EXCEPT !.audio_len = len]
              st1 == [SetT(NoteTry(S, t.id, t.where, script), s, t)
                         EXCEPT !.tinfo[t.id].audios =
                                    Append(@, [call |-> t.call, len |-> len])]
          IN /\ with_retry(script, 0).ok
             /\ Step(TurnTask(s), IF ForwardAudio(st1, s, len)
                    THEN SendChunk(IF t.where = "fb" THEN st1 ELSE mark(st1, "tts1"),
                                   s, 0)
                    ELSE AfterAudio(st1, s))

\* Variant: a synthesis call that raises takes the turn to its failure path.
TTSRaiseAborts(s) ==
    /\ At(s, "tts")
    /\ failLeft > 0
    /\ Step(TurnTask(s), send([SetT(S, s, [turn[s] EXCEPT !.pc = "err"])
                   EXCEPT !.failLeft = @ - 1,
                          !.tinfo[turn[s].id].tts_failed = TRUE],
                turn[s].id, Msg("error")))

\* main.py:367, 385, 415: tts.synthesize raises; 376-377, 393-394, 425-426
TTSRaise(s) ==
    /\ At(s, "tts")
    /\ failLeft > 0
    /\ \E script \in Scripts :
          /\ ~with_retry(script, 0).ok
          /\ Step(TurnTask(s),
                  AfterAudio([NoteTry(S, turn[s].id, turn[s].where, script)
                                 EXCEPT !.failLeft = @ - 1,
                                        !.tinfo[turn[s].id].tts_failed = TRUE], s))

\* main.py:374, 391, 423 returned; 372-375
ChunkSent(s) ==
    /\ At(s, "chunk")
    /\ LET offset == NextOffset(turn[s].offset)
       IN Step(TurnTask(s), IF offset < turn[s].audio_len
              THEN SendChunk(S, s, offset)
              ELSE AfterAudio(S, s))

\* main.py:399 returned; 401-409
AudioEndSent(s) ==
    /\ At(s, "audio_end")
    /\ LET t == turn[s]
       IN Step(TurnTask(s), IF Strip(t.full_response) # <<>>
              THEN send(SetT(add_message(S, t.id, "assistant", t.full_response), s,
                             [t EXCEPT !.pc = "response"]),
                        t.id, [Msg("response") EXCEPT !.text = t.full_response])
              ELSE Return(S, s))

\* main.py:403 returned; 405-409
ResponseSent(s) ==
    /\ At(s, "response")
    /\ Step(TurnTask(s), Return(S, s))

\* Variant: no apology is synthesized after the error message.
ErrorSentSilently(s) ==
    /\ At(s, "err")
    /\ Step(TurnTask(s), Return(S, s))

\* main.py:413 returned; 414-417
ErrorSent(s) ==
    /\ At(s, "err")
    /\ Step(TurnTask(s), CallTTS(S, s, APOLOGY, "fb"))

DeliveryStep(s) ==
    \/ ThinkingSent(s)
    \/ AudioStartSent(s)
    \/ LLMToken(s)
    \/ LLMEnd(s)
    \/ SpeakingSent(s)
    \/ TTSReturn(s)
    \/ ChunkSent(s)
    \/ AudioEndSent(s)
    \/ ResponseSent(s)

TurnStep(s) ==
    \/ DeliveryStep(s)
    \/ InterruptedEndSent(s)

FaultStep(s) ==
    \/ LLMRaise(s)
    \/ TTSRaise(s)
    \/ ErrorSent(s)

(***************************************************************************)
(* on_stt_error and DeepgramSTT.reconnect.                                 *)
(***************************************************************************)
\* Variant: the delay doubles without a limit.
delayUncapped(attempt) == 2 ^ (attempt - 1)

\* stt.py:187, in seconds
delay(attempt) == Min(2 ^ (attempt - 1), 10)

\* stt.py:188: delay * 0.2 * (2 * random.random() - 1), in ms
Jitters(d) == { -200 * d, 0, 200 * d - 1 }

\* send_error of an on_stt_error task
SendError(st, h, message) ==
    IF ConnectionClosed(st) THEN st
    ELSE [st EXCEPT !.reconnects[h].out = Append(@, message)]

\* stt.py:113-117, main.py:186-188: the Error event, up to the await of send_error
STTError ==
    /\ STTConnected
    /\ evLeft > 0
    /\ \E h \in Handlers :
          /\ reconnects[h].pc = "none"
          /\ \A g \in Handlers : g < h => reconnects[g].pc # "none"
          /\ Step(STTTask,
                  SendError([S EXCEPT !.evLeft = @ - 1,
                                      !.stt.is_connected = FALSE,
                                      !.reconnects[h].pc = "notify"],
                            h, "reconnecting"))

\* stt.py:186-194: an attempt begins, up to the await of sleep
Attempt(st, h, attempt, jitter) ==
    [st EXCEPT !.reconnects[h].pc = "sleep",
               !.reconnects[h].attempt = attempt,
               !.reconnects[h].wait = 1000 * delay(attempt) + jitter,
               !.reconnects[h].delays = Append(@, delay(attempt))]

\* main.py:188 returned; 190: stt.reconnect() is called
NotifySent(h) ==
    /\ reconnects[h].pc = "notify"
    /\ \E jitter \in Jitters(delay(1)) : Set(Attempt(S, h, 1, jitter))
    /\ UNCHANGED ran

\* stt.py:62: connect() up to the await of connection.start
Connect(st, h) ==
    [st EXCEPT !.stt.connection = st.stt.opened + 1,
               !.stt.opened = @ + 1,
               !.reconnects[h].pc = "start",
               !.reconnects[h].attempts = @ + 1]

\* stt.py:175-181: disconnect() from the test of self.connection
CloseConnection(st, h) ==
    IF st.stt.connection # 0
    THEN [st EXCEPT !.reconnects[h].pc = "finish"]
    ELSE Connect(st, h)

\* stt.py:194 returned; 197, 166-173: disconnect() up to its first await
SleepDone(h) ==
    /\ reconnects[h].pc = "sleep"
    /\ Set(IF stt.keepalive_task # 0
           THEN [S EXCEPT !.stt.tasks = @ \ {stt.keepalive_task},
                          !.reconnects[h].pc = "cancel"]
           ELSE CloseConnection(S, h))
    /\ UNCHANGED ran

\* stt.py:170 returned; 173-177
KeepaliveAwaited(h) ==
    /\ reconnects[h].pc = "cancel"
    /\ Set(CloseConnection([S EXCEPT !.stt.keepalive_task = 0], h))
    /\ UNCHANGED ran

\* stt.py:177 returned; 180-181, 198, 39-62
FinishReturned(h) ==
    /\ reconnects[h].pc = "finish"
    /\ Set(Connect([S EXCEPT !.stt.connection = 0, !.stt.is_connected = FALSE], h))
    /\ UNCHANGED ran

\* stt.py:62 returned; 66-72, 203-204
ConnectReturn(h) ==
    /\ reconnects[h].pc = "start"
    /\ Set([S EXCEPT !.stt.is_connected = TRUE,
                     !.stt.keepalive_task = stt.created + 1,
                     !.stt.created = @ + 1,
                     !.stt.tasks = @ \cup {stt.created + 1},
                     !.reconnects[h].pc = "done",
                     !.reconnects[h].succeeded = TRUE])
    /\ UNCHANGED ran

\* Variant: the loop gives up after its first attempt.
LastAttemptFirst(attempt) == attempt >= 1

\* stt.py:186: range(1, max_attempts + 1) is exhausted
LastAttempt(attempt) == attempt >= max_attempts

\* stt.py:62-64 raises; 74-76, 205-208, main.py:191-192
ConnectRaise(h) ==
    /\ reconnects[h].pc = "start"
    /\ failLeft > 0
    /\ LET st1 == [S EXCEPT !.failLeft = @ - 1, !.reconnects[h].failures = @ + 1]
       IN IF LastAttempt(reconnects[h].attempt)
          THEN Set(SendError([st1 EXCEPT !.reconnects[h].pc = "failed"], h, "failed"))
          ELSE \E jitter \in Jitters(delay(reconnects[h].attempt + 1)) :
                  Set(Attempt(st1, h, reconnects[h].attempt + 1, jitter))
    /\ UNCHANGED ran

\* main.py:192 returned
FailedSent(h) ==
    /\ reconnects[h].pc = "failed"
    /\ Set([S EXCEPT !.reconnects[h].pc = "done"])
    /\ UNCHANGED ran

\* stt.py:136-138: a keep-alive task finds the connection gone and ends
KeepaliveEnds ==
    /\ ~(stt.is_connected /\ stt.connection # 0)
    /\ \E k \in stt.tasks : Set([S EXCEPT !.stt.tasks = @ \ {k}])
    /\ UNCHANGED ran

\* The session ends, by an 'end' message or by the client closing the connection,
\* whatever the on_stt_error tasks are doing.
CleanupSpec ==
    /\ Start("reconnect", MaxCleanupEvents, MaxCleanupFailures)
    /\ [][\/ STTError
          \/ KeepaliveEnds
          \/ End
          \/ EndCleared
          \/ Disconnect
          \/ Finalized
          \/ \E h \in Handlers :
                \/ NotifySent(h)
                \/ SleepDone(h)
                \/ KeepaliveAwaited(h)
                \/ FinishReturned(h)
                \/ ConnectReturn(h)
                \/ ConnectRaise(h)
                \/ FailedSent(h)]_vars

\* One session: every STT event and control message, every step of a turn.
Init == Start("session", MaxEvents, MaxFailures)

Next ==
    \/ \E r \in Results : OnTranscript(r)
    \/ OnTranscriptResumed
    \/ OnUtteranceEnd
    \/ SendAudioInterrupted
    \/ Interrupt
    \/ Clear
    \/ End
    \/ EndCleared
    \/ Disconnect
    \/ Finalized
    \/ \E s \in Slots : TurnStep(s)
    \/ \E s \in Slots : FaultStep(s)

Spec == Init /\ [][Next]_vars

\* Barge-in: the user keeps talking over the responses; no collaborator fails.
InitBarge == Start("barge", MaxUtterances, 0)

NextBarge ==
    \/ \E r \in Results : OnTranscript(r)
    \/ OnTranscriptResumed
    \/ SendAudioInterrupted
    \/ \E s \in Slots : TurnStep(s)

BargeSpec == InitBarge /\ [][NextBarge]_vars

\* Completion signals: the barge-in scenario with UtteranceEnd events.
InitSignal == Start("barge", MaxSignals, 0)

NextSignal ==
    \/ NextBarge
    \/ OnUtteranceEnd

SignalSpec == InitSignal /\ [][NextSignal]_vars

\* Turns that nothing interrupts, over every response and audio length.
InitTurn == Start("turn", MaxTurnEvents, MaxFailures)

NextTurn ==
    \/ \E r \in Results : ~is_processing /\ OnTranscript(r)
    \/ OnTranscriptResumed
    \/ \E s \in Slots : DeliveryStep(s)
    \/ \E s \in Slots : FaultStep(s)

TurnSpec == InitTurn /\ [][NextTurn]_vars

\* A long conversation: one utterance after the other, each answered in full.
InitWindow == Start("window", MaxWindowTurns, 0)

NextWindow ==
    \/ \E r \in Results : ~is_processing /\ txq = <<>> /\ OnTranscript(r)
    \/ OnTranscriptResumed
    \/ \E s \in Slots : DeliveryStep(s)

WindowSpec == InitWindow /\ [][NextWindow]_vars

\* Failures: utterances one after the other, the LLM and TTS collaborators raise.
InitFault == Start("fault", MaxFaultTurns, MaxFaults)

NextFault ==
    \/ \E r \in Results : ~is_processing /\ OnTranscript(r)
    \/ OnTranscriptResumed
    \/ \E s \in Slots : DeliveryStep(s)
    \/ \E s \in Slots : FaultStep(s)

FaultSpec == InitFault /\ [][NextFault]_vars

\* Sentence splitting: a turn that nothing interrupts, over every tokenization of
\* one response text.
InitSentence == Start("sentence", MaxSentenceTurns, 0)

NextSentence ==
    \/ \E r \in Results : ~is_processing /\ txq = <<>> /\ OnTranscript(r)
    \/ OnTranscriptResumed
    \/ \E s \in Slots : DeliveryStep(s)

SentenceSpec == InitSentence /\ [][NextSentence]_vars

\* Retries: turns in summarization mode, with a threshold the first message
\* exceeds, whose remote calls fail and succeed attempt by attempt.
RetrySpec ==
    /\ StartWith("retry", MaxRetryTurns, MaxRetryFaults,
                 [ShippedConfig EXCEPT !.use_summarization = TRUE, !.summarize_after = 0])
    /\ [][\/ NextFault
          \/ \E s \in Slots : SummarizeReturn(s)
          \/ \E s \in Slots : SummarizeRaise(s)]_vars

\* STT errors: the connection fails while the user talks, and the attempts to
\* reconnect succeed or fail.
ReconnectSpec ==
    /\ Start("reconnect", MaxReconEvents, MaxReconFailures)
    /\ [][\/ \E r \in Results : OnTranscript(r)
          \/ OnTranscriptResumed
          \/ STTError
          \/ KeepaliveEnds
          \/ \E h \in Handlers :
                \/ NotifySent(h)
                \/ SleepDone(h)
                \/ KeepaliveAwaited(h)
                \/ FinishReturned(h)
                \/ ConnectReturn(h)
                \/ ConnectRaise(h)
                \/ FailedSent(h)]_vars

\* Summarization mode with the shipped threshold: a long conversation in which
\* the summarizer may raise.
FallbackSpec ==
    /\ StartWith("window", MaxWindowTurns, MaxFallbacks,
                 [ShippedConfig EXCEPT !.use_summarization = TRUE])
    /\ [][\/ NextWindow
          \/ \E s \in Slots : SummarizeReturn(s)
          \/ \E s \in Slots : SummarizeRaise(s)]_vars

\* Summarization mode with small thresholds: the user talks over the responses
\* and over the summarizer.
CompactSpec ==
    /\ \E th \in 0..MaxThreshold :
          StartWith("barge", MaxCompactEvents, 0,
                    [ShippedConfig EXCEPT !.use_summarization = TRUE,
                                          !.summarize_after = th])
    /\ [][\/ NextBarge
          \/ \E s \in Slots : SummarizeReturn(s)]_vars

(***************************************************************************)
(* The conversation memory by itself: the methods of ConversationMemory    *)
(* called one after the other on one session, for several values of        *)
(* summarize_after.  The messages are stored as the pipeline stores them,  *)
(* user and assistant in turn.                                             *)
(***************************************************************************)
AddMessage ==
    /\ clock <= MaxStored
    /\ Set([add_message(S, 0, IF clock % 2 = 1 THEN "user" ELSE "assistant", << "m" >>)
               EXCEPT !.memcall = [op |-> "add_message", ret |-> <<>>]])
    /\ UNCHANGED ran

GetHistory ==
    /\ Set([S EXCEPT !.memcall = [op |-> "get_history", ret |-> get_history(S)]])
    /\ UNCHANGED ran

ApplyWindow ==
    /\ Set([apply_window(S) EXCEPT !.memcall = [op |-> "apply_window", ret |-> <<>>]])
    /\ UNCHANGED ran

SummarizeAndCompact ==
    /\ evLeft > 0
    /\ \E raised \in BOOLEAN, summary \in Summaries :
          /\ raised => summary = <<>>
          /\ Set(summarize_and_compact(
                     [S EXCEPT !.evLeft = @ - 1,
                               !.memcall = [op |-> "summarize_and_compact",
                                            ret |-> <<>>]],
                     raised, summary))
    /\ UNCHANGED ran

MemorySpec ==
    /\ \E th \in (0..MaxThreshold) \cup {ShippedConfig.summarize_after} :
          StartWith("memory", MaxCompactions, 0,
                    [ShippedConfig EXCEPT !.use_summarization = TRUE,
                                          !.summarize_after = th])
    /\ [][AddMessage \/ GetHistory \/ ApplyWindow \/ SummarizeAndCompact]_vars

(***************************************************************************)
(* LLMProvider._to_anthropic_messages over every short history.            *)
(***************************************************************************)
\* "summary" in content.lower(), on the contents the histories are made of: a
\* user or assistant text, the summary message of get_history
\* (conversation_memory.py:57-61), a text with the word in capitals, and a system
\* text without it
MentionsSummary(content) ==
    content \in { << "Previous conversation summary: ", "s" >>, << "SUMMARY" >> }

Histories ==
    LET Contents == { << "hi" >>, << "Previous conversation summary: ", "s" >>,
                      << "SUMMARY" >>, << "You are Nova" >> }
        Messages == [ role : {"user", "assistant", "system"}, content : Contents ]
    IN UNION { [1..n -> Messages] : n \in 0..MaxHistory }

\* provider.py:252-273
RECURSIVE to_anthropic_messages(_)
to_anthropic_messages(history) ==
    LET RECURSIVE result(_)
        result(h) ==
            IF h = <<>> THEN <<>>
            ELSE LET m == Head(h)
                 IN (IF m.role \in {"user", "assistant"} THEN << m >>
                     ELSE IF m.role = "system" /\ MentionsSummary(m.content)
                          THEN << [role |-> "user",
                                   content |-> << "[Context] " >> \o m.content] >>
                          ELSE <<>>) \o result(Tail(h))
        filtered == result(history)
    IN IF filtered = <<>> THEN << [role |-> "user", content |-> << "Hello" >>] >>
       ELSE IF filtered[1].role # "user"
            THEN << [role |-> "user", content |-> << "(continuing conversation)" >>] >>
                     \o filtered
            ELSE filtered

\* One call in a behaviour
ToAnthropicMessages ==
    /\ memcall.op = "none"
    /\ \E history \in Histories :
          Set([S EXCEPT !.memcall = [op |-> "_to_anthropic_messages", history |-> history,
                                     ret |-> to_anthropic_messages(history)]])
    /\ UNCHANGED ran

AnthropicSpec == Start("anthropic", 0, 0) /\ [][ToAnthropicMessages]_vars

(***************************************************************************)
(* The two registries under the calls of concurrent sessions, in any       *)
(* order: each call names a session id, and a summarize_and_compact call   *)
(* is suspended in summarize_fn while other calls run.                     *)
(***************************************************************************)
\* main.py:145-149: a connection gets a session id of its own and a record in
\* both registries
NewConnection ==
    /\ clock <= MaxRegistryClock
    /\ \E sid \in Sids :
          LET v == Lookup(S, sid)
          IN /\ ~v.memory.exists /\ ~v.metrics.exists /\ sid \notin DOMAIN registry.frames
             /\ Set([Stored(S, sid, [create_session(v) EXCEPT !.metrics = NewMetrics])
                        EXCEPT !.memcall = [op |-> "create_session", sid |-> sid,
                                            key |-> "stt", before |-> 0]])
    /\ UNCHANGED ran

Call ==
    /\ clock <= MaxRegistryClock
    /\ \E sid \in Sids, key \in DOMAIN NoRequest \ {"start"},
          op \in { "add_message", "apply_window", "memory.clear_session",
                   "start_request", "mark", "finalize_request",
                   "metrics.clear_session" } :
          LET v == Lookup(S, sid)
              r == CASE op = "add_message" ->
                            add_message(v, 0, IF clock % 2 = 1 THEN "user" ELSE "assistant",
                                        << "m" >>)
                     [] op = "apply_window" -> apply_window(v)
                     [] op = "memory.clear_session" -> clear_session(v)
                     [] op = "start_request" -> start_request(v)
                     [] op = "mark" -> mark(v, key)
                     [] op = "finalize_request" -> finalize_request(v)
                     [] op = "metrics.clear_session" -> metrics_clear_session(v)
          IN /\ op # "mark" => key = "stt"
             /\ Set([Stored(S, sid, r) EXCEPT
                        !.memcall = [op |-> op, sid |-> sid, key |-> key,
                                     before |-> v.metrics.cur[key]]])
    /\ UNCHANGED ran

\* conversation_memory.py:82-99: summarize_and_compact up to the await
SummarizeCalled ==
    \E sid \in Sids :
        LET v == Lookup(S, sid)
        IN /\ evLeft > 0
           /\ sid \notin DOMAIN registry.frames
           /\ NeedsCompaction(v)
           /\ Set([S EXCEPT !.evLeft = @ - 1,
                            !.registry.frames =
                               Put(@, sid, [exists |-> TRUE,
                                            session |-> v.memory.created_at,
                                            to_keep |-> CompactionCut(v).to_keep]),
                            !.memcall = [op |-> "summarize_and_compact", sid |-> sid,
                                         key |-> "stt", before |-> 0]])
           /\ UNCHANGED ran

\* conversation_memory.py:99-112: summarize_fn returns or raises.  The assignments
\* go to the record the call looked up; apply_window looks the session id up again.
SummarizeDone ==
    \E sid \in Sids, raised \in BOOLEAN, summary \in Summaries :
        LET v == Lookup(S, sid)
            frame == registry.frames[sid]
            r == IF raised THEN apply_window(v)
                 ELSE IF v.memory.exists /\ v.memory.created_at = frame.session
                 THEN Summarized(v, frame.to_keep, summary)
                 ELSE v
        IN /\ sid \in DOMAIN registry.frames
           /\ raised => summary = <<>>
           /\ Set([Stored(S, sid, r) EXCEPT
                      !.registry.frames = Put(@, sid, [exists |-> FALSE]),
                      !.memcall = [op |-> "summarize_fn", sid |-> sid,
                                   key |-> "stt", before |-> 0]])
           /\ UNCHANGED ran

RegistrySpec ==
    /\ StartWith("registry", MaxRegistryCompactions, 0, [ShippedConfig EXCEPT !.use_summarization = TRUE,
                                                         !.max_messages = 1,
                                                         !.summarize_after = 1])
    /\ [][NewConnection \/ Call \/ SummarizeCalled \/ SummarizeDone]_vars

TypeOK ==
    /\ is_processing \in BOOLEAN
    /\ evLeft \in Nat
    /\ \A s \in Slots : turn[s].pc \in
          {"idle", "summarize", "thinking", "audio_start", "llm", "int_end", "speaking", "tts",
           "chunk", "audio_end", "response", "err"}

(***************************************************************************)
(* Properties.                                                             *)
(***************************************************************************)
Turns == DOMAIN tinfo
InFlight == { s \in Slots : turn[s].pc # "idle" }

IsAudio(m) == m.type = "audio"
IsAssistant(w) == w.role = "assistant"
AudioFrames(id) == SelectSeq(tinfo[id].out, IsAudio)
AssistantWrites(id) == SelectSeq(tinfo[id].writes, IsAssistant)
Queued(id) == Cardinality({ k \in DOMAIN notifyQ : notifyQ[k] = id })

EndsWith(text, suffix) ==
    /\ Len(text) >= Len(suffix)
    /\ SubSeq(text, Len(text) - Len(suffix) + 1, Len(text)) = suffix

\* C1: a fragment appended to the buffer while a turn was in flight is dispatched
\* by that turn's cleanup, so once no on_utterance_end task is left, none of
\* the fragments still in the buffer was appended during a turn.  The code does
\* not satisfy this: the cleanup of the turn that a cleanup started (main.py:224-225)
\* does not look at the buffer again.
C1_BufferedUtteranceDispatchedByCleanup ==
    InFlight = {} => \A i \in DOMAIN pendingFrags : ~pendingFrags[i].busy

\* C2: at most one turn is in flight at any time; a completion signal that arrives
\* while is_processing is true starts no second turn.
C2_AtMostOneTurnInFlight ==
    /\ Cardinality(InFlight) <= 1
    /\ InFlight # {} => is_processing

\* A fragment with speech_final was appended, and on_utterance_end called, while a
\* turn was in flight.
C2_CompletionDuringTurn ==
    /\ InFlight # {}
    /\ pendingFrags # <<>>
    /\ pendingFrags[Len(pendingFrags)].busy
    /\ pendingFrags[Len(pendingFrags)].text = << " ", "b" >>

\* C3: no audio chunk of a turn is written to the client after the turn's signal is
\* set and before its audio_interrupted.  The code does not satisfy this: the chunk
\* loop (main.py:372-375) does not test the signal, and audio_interrupted is sent by
\* a task that runs after the tasks that are already ready.
C3_NoAudioBetweenSignalAndNotification ==
    \A id \in Turns : \A k \in DOMAIN tinfo[id].out :
        LET m == tinfo[id].out[k]
        IN (IsAudio(m) /\ m.sig) => m.noted

\* C4: a turn whose signal is set opens no LLM stream and starts no synthesis call.
\* The code does not satisfy this: the stream is opened (main.py:337) without a test
\* after the two sends that follow the test of line 316, and the fallback synthesis
\* (main.py:415) is not preceded by a test.
C4_NoCallOnceSignalSet ==
    \A id \in Turns : \A k \in DOMAIN tinfo[id].calls : ~tinfo[id].calls[k].sig

\* C5: if the signal is set while the synthesis call of a sentence (or of the
\* trailing fragment) is outstanding, no audio of that call is written to the client.
C5_AudioOfOutstandingCallNotForwarded ==
    \A id \in Turns :
        tinfo[id].abort_call # 0 =>
            \A k \in DOMAIN tinfo[id].out :
                IsAudio(tinfo[id].out[k]) => tinfo[id].out[k].call # tinfo[id].abort_call

\* The signal was set during a synthesis call that then returned audio.
C5_CallReturnedAfterSignal ==
    \E id \in Turns :
        /\ tinfo[id].abort_call # 0
        /\ \E k \in DOMAIN tinfo[id].audios :
              /\ tinfo[id].audios[k].call = tinfo[id].abort_call
              /\ tinfo[id].audios[k].len > 0

\* C6: a turn whose signal is set before its stream has ended and after response
\* text was received writes no assistant message other than the partial response
\* tagged as interrupted, and sends no response message.  The code does not satisfy
\* this: when the signal is set during the send of 'speaking', the break of
\* main.py:363 leads to the untagged write and the response of lines 401-403.
C6_InterruptedTurnWritesOnlyTaggedPartial ==
    \A id \in Turns :
        tinfo[id].mid_abort =>
            /\ \A k \in DOMAIN tinfo[id].writes :
                   IsAssistant(tinfo[id].writes[k]) =>
                       EndsWith(tinfo[id].writes[k].content, INTERRUPTED)
            /\ \A k \in DOMAIN tinfo[id].out : tinfo[id].out[k].type # "response"

\* C7: however often abort is signalled during a turn, the signal is set and an
\* audio_interrupted task created once: one notification is written (none if the
\* connection closes first), and the turn writes at most one assistant message.
C7_AbortIsIdempotent ==
    \A id \in Turns :
        LET n == tinfo[id].interrupted_sent + Queued(id)
        IN /\ tinfo[id].notified = (IF id \in evset THEN 1 ELSE 0)
           /\ tinfo[id].abort_requests > 0 => id \in evset
           /\ n <= tinfo[id].notified
           /\ ~ConnectionClosed(S) => n = tinfo[id].notified
           /\ Len(AssistantWrites(id)) <= 1

\* A turn that was signalled twice has finished and its notification was written.
C7_SignalledTwice ==
    \E id \in Turns :
        /\ tinfo[id].abort_requests >= 2
        /\ tinfo[id].interrupted_sent = 1
        /\ tinfo[id].done

RECURSIVE JoinSp(_)
JoinSp(frags) ==
    IF frags = <<>> THEN <<>>
    ELSE IF Len(frags) = 1 THEN frags[1].text
    ELSE JoinSp(SubSeq(frags, 1, Len(frags) - 1)) \o << " " >> \o frags[Len(frags)].text

\* C8 as stated: the text dispatched to a turn is the space-joined concatenation of
\* the fragments received since the previous dispatch.
C8_DispatchedTextIsJoin ==
    \A id \in Turns : tinfo[id].user_message = JoinSp(tinfo[id].frags)

\* C8: the text dispatched to a turn is the space-joined concatenation, in arrival
\* order, of the fragments received since the previous dispatch, with leading and
\* trailing whitespace removed; the buffer holds the join of exactly the fragments
\* received since the last dispatch, which empties it.
C8_DispatchedTextIsStrippedJoin ==
    /\ \A id \in Turns : tinfo[id].user_message = Strip(JoinSp(tinfo[id].frags))
    /\ utterance_buffer = JoinSp(pendingFrags)

\* A turn was dispatched with two fragments, the dispatch emptied the buffer.
C8_TwoFragmentsDispatched ==
    \E id \in Turns :
        /\ Len(tinfo[id].frags) >= 2
        /\ tinfo[id].user_message # <<>>
        /\ utterance_buffer = <<>>

IsNotSpeaking(m) == m.type # "speaking"

\* The messages of a turn other than 'speaking' are thinking, audio_start, one or
\* more audio frames, audio_end and a response with non-empty text, in this order.
InOrder(id) ==
    LET o == SelectSeq(tinfo[id].out, IsNotSpeaking)
        n == Len(o)
    IN /\ n >= 5
       /\ o[1].type = "thinking"
       /\ o[2].type = "audio_start"
       /\ \A k \in 3..(n - 2) : o[k].type = "audio"
       /\ o[n - 1].type = "audio_end"
       /\ o[n].type = "response"
       /\ o[n].text # <<>>

\* A turn that has returned, was not cancelled, and whose calls all succeeded,
\* on a connection that is open.
Succeeded(id) ==
    /\ tinfo[id].done
    /\ ~ConnectionClosed(S)
    /\ id \notin evset
    /\ ~tinfo[id].llm_failed
    /\ ~tinfo[id].tts_failed

\* C9 as stated: a turn with no cancellation, a non-empty response and successful
\* synthesis sends thinking, audio_start, audio, audio_end, response in this order.
C9_NonEmptyResponseInOrder ==
    \A id \in Turns :
        (Succeeded(id) /\ tinfo[id].full_response # <<>>) => InOrder(id)

\* C9: a turn with no cancellation, a response that is not blank and synthesis
\* calls that all return audio of at least one byte sends thinking, audio_start, at
\* least one audio frame, audio_end and a response with non-empty text, in this order.
C9_NonBlankResponseInOrder ==
    \A id \in Turns :
        ( /\ Succeeded(id)
          /\ Strip(tinfo[id].full_response) # <<>>
          /\ \A k \in DOMAIN tinfo[id].audios : tinfo[id].audios[k].len > 0 )
        => InOrder(id)

\* A turn with a response of two sentences has returned after two synthesis calls.
C9_TurnSucceeded ==
    \E id \in Turns :
        /\ Succeeded(id)
        /\ Strip(tinfo[id].full_response) # <<>>
        /\ Len(tinfo[id].audios) = 2
        /\ \A k \in DOMAIN tinfo[id].audios : tinfo[id].audios[k].len > 0
        /\ Len(tinfo[id].out) >= 6

\* The frames of audio a, a slice of ChunkSize bytes after the other.
ChunksOf(a) ==
    [ k \in 1..((a.len + ChunkSize - 1) \div ChunkSize) |->
        [ call |-> a.call, lo |-> (k - 1) * ChunkSize,
          hi |-> IF k * ChunkSize < a.len THEN k * ChunkSize ELSE a.len ] ]

RECURSIVE ExpectedFrames(_)
ExpectedFrames(audios) ==
    IF audios = <<>> THEN <<>>
    ELSE ChunksOf(Head(audios)) \o ExpectedFrames(Tail(audios))

SentFrames(id) ==
    LET f == AudioFrames(id)
    IN [ k \in DOMAIN f |-> [ call |-> f[k].call, lo |-> f[k].lo, hi |-> f[k].hi ] ]

IsPrefix(p, q) == Len(p) <= Len(q) /\ p = SubSeq(q, 1, Len(p))

\* On an open connection, the turn has returned or is inside its next synthesis call.
AudioDelivered(id) ==
    /\ ~ConnectionClosed(S)
    /\ \/ tinfo[id].done
       \/ \E s \in Slots : turn[s].id = id /\ turn[s].pc = "tts"

\* C10: for a turn that is not cancelled, the audio frames written to the client
\* (its connection being open) are, in order, the audio of each synthesis call in call order, cut every 4096
\* bytes: the audio of a call is written in full before the next call is made, every
\* frame has at most 4096 bytes and only the last frame of a call is shorter.
C10_FramesAreAudioInOrder ==
    \A id \in Turns :
        id \notin evset =>
            /\ IsPrefix(SentFrames(id), ExpectedFrames(tinfo[id].audios))
            /\ AudioDelivered(id) => SentFrames(id) = ExpectedFrames(tinfo[id].audios)
            /\ \A k \in DOMAIN SentFrames(id) :
                   SentFrames(id)[k].hi - SentFrames(id)[k].lo \in 1..ChunkSize

\* A turn has returned after two synthesis calls, one with audio of two full frames.
C10_TwoSentencesDelivered ==
    \E id \in Turns :
        /\ Succeeded(id)
        /\ Len(tinfo[id].audios) = 2
        /\ \E k \in DOMAIN tinfo[id].audios : tinfo[id].audios[k].len = 2 * ChunkSize
        /\ \E k \in DOMAIN tinfo[id].audios : tinfo[id].audios[k].len = ChunkSize + 1
        /\ Len(AudioFrames(id)) = 4

\* C11: after a 'clear' is handled, the history of the session is empty and stays
\* empty until the next utterance is dispatched.  The code does not satisfy this
\* when a turn is in flight at the clear: the turn goes on after clear_session and
\* create_session (main.py:255-256) and writes its assistant message, tagged
\* (main.py:346) or not (main.py:402), to the fresh record.
C11_HistoryEmptyAfterClear ==
    cleared => memory.messages = <<>>

\* The message loop handles 'end' or the close of the connection, or enters the
\* finally block after 'end'.
SessionEnds ==
    \/ mainpc = "loop" /\ mainpc' \in {"end_disc", "lost"}
    \/ mainpc = "end_disc" /\ mainpc' = "fin_disc"

\* C12: when 'end' or the close of the connection is handled, the signal of the turn
\* in flight is set; once the cleanup has run, the memory and the latency registry
\* hold no record of the session, and no later step of a turn or of an STT callback
\* creates one.
C12_EndDiscardsRecords ==
    /\ [](mainpc \in {"fin_disc", "closed"} => (~memory.exists /\ ~metrics.exists))
    /\ [][SessionEnds => (is_processing => abort_event \in evset')]_vars

\* A turn that was cancelled by the end of the session has returned after the
\* cleanup, and its assistant message found no record to be written to.
C12_TurnOutlivesCleanup ==
    /\ mainpc = "closed"
    /\ ~memory.exists
    /\ \E id \in Turns :
          /\ id \in evset
          /\ tinfo[id].done
          /\ Strip(tinfo[id].full_response) # <<>>
          /\ AssistantWrites(id) = <<>>

\* C13: in sliding-window mode the number of stored messages of a session is at
\* most max_messages after every completed turn.  The code does not satisfy this:
\* apply_window runs after the user message is added and before the assistant
\* message is (main.py:308-314, 402), so a turn that starts with max_messages
\* messages ends with max_messages + 1.
C13_WindowHoldsAfterTurn ==
    InFlight = {} => Len(memory.messages) <= max_messages

IsError(m) == m.type = "error"
IsFallback(c) == c.kind = "fb"
Fallbacks(id) == SelectSeq(tinfo[id].calls, IsFallback)

\* The audio frames of the turn that belong to its synthesis call number c.
FramesOfCall(id, c) ==
    LET OfCall(f) == f.call = c
    IN SelectSeq(SentFrames(id), OfCall)

\* The audio the turn's synthesis call number c returned, if it returned.
AudioOfCall(id, c) ==
    LET OfCall(a) == a.call = c
    IN SelectSeq(tinfo[id].audios, OfCall)

\* The turn has returned and no longer holds is_processing.
Released(id) ==
    /\ tinfo[id].done
    /\ \A s \in Slots : turn[s].pc # "idle" => turn[s].id # id
    /\ is_processing => \E s \in Slots : turn[s].pc # "idle" /\ turn[s].id > id

\* C14 as stated: a turn in which any step raised sends an error message.
C14_AnyFailureSendsError ==
    \A id \in Turns :
        (tinfo[id].done /\ (tinfo[id].llm_failed \/ tinfo[id].tts_failed)) =>
            Len(SelectSeq(tinfo[id].out, IsError)) = 1

\* C14: a turn whose LLM stream raises sends one error message and makes one
\* synthesis call for the apology, whose audio, if the call returns, is sent in
\* full (the connection being open); a turn in which only the synthesis of a
\* sentence raises sends no error message and no apology.  Either way, and also when the apology call raises, the
\* turn returns and releases is_processing.
C14_StreamFailureSendsApology ==
    \A id \in Turns :
        tinfo[id].done =>
            /\ Released(id)
            /\ Len(Fallbacks(id)) = (IF tinfo[id].llm_failed THEN 1 ELSE 0)
            /\ ~ConnectionClosed(S) =>
                   /\ Len(SelectSeq(tinfo[id].out, IsError)) =
                          (IF tinfo[id].llm_failed THEN 1 ELSE 0)
                   /\ \A k \in DOMAIN Fallbacks(id) :
                          FramesOfCall(id, Fallbacks(id)[k].call) =
                              ExpectedFrames(AudioOfCall(id, Fallbacks(id)[k].call))

\* A turn whose stream raised has sent the error message and the apology; a turn
\* whose stream and apology call both raised has returned; the utterance after it
\* was answered in full.
C14_SessionContinues ==
    /\ Len(tinfo) = 2
    /\ tinfo[1].llm_failed /\ tinfo[1].done
    /\ Len(Fallbacks(1)) = 1
    /\ AudioOfCall(1, Fallbacks(1)[1].call) = <<>>
    /\ tinfo[1].tts_failed
    /\ Succeeded(2)
    /\ InOrder(2)

RECURSIVE Flatten(_)
Flatten(tokens) ==
    IF tokens = <<>> THEN <<>> ELSE Head(tokens) \o Flatten(Tail(tokens))

IsSynthesis(c) == c.kind \in {"loop", "last"}
Syntheses(id) == SelectSeq(tinfo[id].calls, IsSynthesis)

\* The synthesis calls of the turn were made for consecutive pieces of the response
\* text, and no text other than whitespace was left out.
AllTextSynthesized(id) ==
    LET c == Syntheses(id)
        text == Flatten(tinfo[id].tokens)
        n == Len(c)
    IN IF n = 0 THEN Strip(text) = <<>>
       ELSE /\ c[1].span[1] = 1
            /\ \A k \in 1..(n - 1) : c[k + 1].span[1] = c[k].span[2] + 1
            /\ Strip(SubSeq(text, c[n].span[2] + 1, Len(text))) = <<>>

\* The turn ended with audio_end and the response message, and wrote its full
\* response to the memory.
EndedInFull(id) ==
    LET o == tinfo[id].out
        n == Len(o)
        text == Flatten(tinfo[id].tokens)
    IN /\ n >= 2
       /\ o[n - 1].type = "audio_end"
       /\ o[n].type = "response" /\ o[n].text = text
       /\ AssistantWrites(id) = << [role |-> "assistant", content |-> text] >>

\* C15: a turn in which the synthesis of a sentence raises is not aborted: every
\* piece of the response is still handed to synthesis in order, the audio of the
\* calls that return is sent in order and in full, and the turn ends with audio_end,
\* the full response written to the memory and the response message.
C15_SentenceFailureDoesNotAbort ==
    \A id \in Turns :
        ( /\ tinfo[id].done
          /\ tinfo[id].tts_failed
          /\ ~tinfo[id].llm_failed
          /\ id \notin evset
          /\ ~ConnectionClosed(S)
          /\ memory.exists )
        => /\ AllTextSynthesized(id)
           /\ SentFrames(id) = ExpectedFrames(tinfo[id].audios)
           /\ EndedInFull(id)

\* The synthesis of the first of two sentences raised; the audio of the second was
\* sent and the turn has returned.
C15_FirstSentenceFailed ==
    \E id \in Turns :
        /\ tinfo[id].done
        /\ tinfo[id].tts_failed
        /\ ~tinfo[id].llm_failed
        /\ Len(Syntheses(id)) = 2
        /\ Len(tinfo[id].audios) = 1
        /\ tinfo[id].audios[1].call = 2
        /\ Len(AudioFrames(id)) >= 1

\* Position i of the text is a sentence boundary: a '.', '!' or '?' followed by
\* whitespace or by the end of the text, or a newline.
IsBoundary(text, i) ==
    \/ text[i] = "\n"
    \/ /\ text[i] \in {".", "!", "?"}
       /\ (i = Len(text) \/ IsSpace(text[i + 1]))

\* The sentences of a text: each ends at the first boundary after the previous
\* one; what follows the last boundary is the trailing fragment.
RECURSIVE SentencesOf(_)
SentencesOf(text) ==
    IF Strip(text) = <<>> THEN <<>>
    ELSE LET B == { i \in 1..Len(text) : IsBoundary(text, i) }
         IN IF B = {} THEN << Strip(text) >>
            ELSE LET b == CHOOSE i \in B : \A j \in B : i <= j
                     head == Strip(SubSeq(text, 1, b))
                 IN (IF head = <<>> THEN <<>> ELSE << head >>)
                        \o SentencesOf(SubSeq(text, b + 1, Len(text)))

SynthesizedTexts(id) == [ k \in DOMAIN Syntheses(id) |-> Syntheses(id)[k].text ]

\* C16: the sentences handed to synthesis are the sentences of the response text,
\* each ending at its boundary and holding no earlier one, however the text is cut
\* into tokens.  The code does not satisfy this: it looks for a boundary in the
\* token alone (main.py:353) and, when it finds one, emits the whole buffer
\* (main.py:354).
C16_SentencesEndAtBoundaries ==
    \A id \in Turns :
        Succeeded(id) => SynthesizedTexts(id) = SentencesOf(Flatten(tinfo[id].tokens))

\* The position in the response text of the last character of the sentence of call c.
LastCharOf(id, c) ==
    c.span[1] - 1 + Len(RStrip(SubSeq(Flatten(tinfo[id].tokens), c.span[1], c.span[2])))

\* C17: a '.', '!' or '?' that is followed in the response text by a character that
\* is not whitespace ends no sentence.  The code does not satisfy this: the
\* lookahead of SENTENCE_ENDERS sees the end of the token (main.py:290, 353), so a
\* '.' that ends a token is a boundary whatever the next token starts with.
C17_PunctuationInsideWordEndsNoSentence ==
    \A id \in Turns : \A k \in DOMAIN tinfo[id].calls :
        LET c == tinfo[id].calls[k]
            text == Flatten(tinfo[id].tokens)
            p == LastCharOf(id, c)
        IN (c.kind = "loop" /\ text[p] \in {".", "!", "?"} /\ p < Len(text))
               => IsSpace(text[p + 1])

\* C18: is_processing is true exactly while a turn is in flight: it is set in the
\* step that dispatches the utterance and reset in the step in which the turn
\* ends, however it ends.
C18_ProcessingIffTurnInFlight ==
    /\ is_processing <=> InFlight # {}
    /\ \A id \in Turns : tinfo[id].done => Released(id)
    /\ \A s \in Slots : turn[s].pc # "idle" => ~tinfo[turn[s].id].done

\* A turn that was cancelled and whose stream raised has ended, and is_processing
\* is false.
C18_TurnEndedByFailure ==
    /\ ~is_processing
    /\ \E id \in Turns :
          /\ tinfo[id].done
          /\ tinfo[id].llm_failed
          /\ id \in evset

\* The state of the session, without the count of events left to deliver and the
\* record of which tasks have run.
SessionState ==
    << utterance_buffer, is_processing, abort_event, evset, turn, txq, notifyQ,
       memory, metrics, transcripts_sent, mainpc, nTurns, tinfo, pendingFrags,
       cleared >>

\* C19: a completion signal that arrives when the buffer is empty or blank
\* dispatches nothing and changes no session state, and every dispatch takes at
\* least one fragment received since the previous one, so that two completion
\* signals for the same buffer give one dispatch.
C19_CompletionOnEmptyBufferIsNoOp ==
    /\ [](\A id \in Turns : tinfo[id].frags # <<>>)
    /\ [][(OnUtteranceEnd /\ Strip(utterance_buffer) = <<>>) =>
              UNCHANGED SessionState]_vars

\* A fragment with speech_final was dispatched and an UtteranceEnd event arrived
\* (before, during or after the turn): there is one turn.
C19_SecondSignalArrived ==
    /\ transcripts_sent = 1
    /\ evLeft = MaxSignals - 2
    /\ txq = <<>>
    /\ utterance_buffer = <<>>
    /\ nTurns = 1
    /\ tinfo[1].done
    /\ tinfo[1].frags = << [text |-> << "a" >>, busy |-> FALSE] >>

\* C20: every turn has a signal of its own, created unset when the turn starts: a
\* signal is set, and an audio_interrupted task created or run, only for a turn
\* that received an abort request while it was in flight; the signal the session
\* started with is never set, and the turn in flight owns the current signal.
C20_FreshSignalPerTurn ==
    /\ evset \subseteq Turns
    /\ abort_event = nTurns
    /\ \A s \in Slots : turn[s].pc # "idle" => turn[s].id = abort_event
    /\ \A k \in DOMAIN notifyQ : notifyQ[k] \in evset
    /\ \A id \in Turns :
          (id \in evset \/ tinfo[id].interrupted_sent > 0 \/ tinfo[id].notified > 0)
              => tinfo[id].abort_requests > 0

\* The first turn was cancelled; the second, started by its cleanup, was not, and
\* has delivered its response in full.
C20_LaterTurnNotCancelled ==
    /\ Len(tinfo) = 2
    /\ 1 \in evset
    /\ 2 \notin evset
    /\ Succeeded(2)
    /\ InOrder(2)

\* C21: get_history returns one leading system message that carries the summary
\* exactly when the summary is not empty, then the last max_messages stored messages
\* (all of them when there are fewer) in their stored order, each with its role and
\* content and nothing else.
C21_HistoryIsSummaryThenRecent ==
    memcall.op = "get_history" =>
        LET h == memcall.ret
            stored == memory.messages
            n == IF Len(stored) > max_messages THEN max_messages ELSE Len(stored)
            lead == IF memory.summary # <<>> THEN 1 ELSE 0
        IN /\ Len(h) = lead + n
           /\ lead = 1 => /\ h[1].role = "system"
                          /\ EndsWith(h[1].content, memory.summary)
           /\ \A k \in 1..n :
                 /\ DOMAIN h[lead + k] = { "role", "content" }
                 /\ h[lead + k].role = stored[Len(stored) - n + k].role
                 /\ h[lead + k].content = stored[Len(stored) - n + k].content
                 /\ h[lead + k].role # "system"

\* get_history was called on a session with a summary and more than max_messages
\* stored messages.
C21_HistoryOfLongSession ==
    /\ memcall.op = "get_history"
    /\ memory.summary # <<>>
    /\ Len(memory.messages) > max_messages
    /\ Len(memcall.ret) = max_messages + 1

\* C22: apply_window leaves the stored messages as they are when there are at most
\* max_messages of them, and otherwise keeps the last max_messages of them, in
\* their stored order.
C22_WindowKeepsMostRecent ==
    [][memcall'.op = "apply_window" =>
          LET old == memory.messages
              new == memory'.messages
          IN /\ Len(old) <= max_messages => new = old
             /\ Len(old) > max_messages =>
                   /\ Len(new) = max_messages
                   /\ \A k \in 1..max_messages :
                         new[k] = old[Len(old) - max_messages + k]]_vars

\* apply_window was called on more than max_messages messages: the oldest stored
\* message is no longer the first one that was added.
C22_OldestMessageDropped ==
    /\ memcall.op = "apply_window"
    /\ Len(memory.messages) = max_messages
    /\ memory.messages[1].timestamp > 1
    /\ memory.summary = <<>>

\* C23: for every summarize_after >= 0, a compaction of more than summarize_after
\* messages whose summarizer succeeds keeps exactly the last summarize_after \div 2
\* messages, hands all the older ones to the summarizer, and appends the summary it
\* returns to the running summary.  The code does not satisfy this for
\* summarize_after = 0 and 1: keep_recent is 0, messages[:-0] is the empty list and
\* messages[-0:] is the whole list, so nothing is summarized and nothing is removed.
C23_CompactionKeepsHalfThreshold ==
    [][(memcall'.op = "summarize_fn" /\ ~memcall'.raised) =>
          LET old == memory.messages
              new == memory'.messages
              keep == config.summarize_after \div 2
          IN /\ Len(old) > config.summarize_after
             /\ Len(new) = keep
             /\ \A k \in 1..keep : new[k] = old[Len(old) - keep + k]
             /\ memcall'.ret = SubSeq(old, 1, Len(old) - keep)
             /\ IsPrefix(memory.summary, memory'.summary)
             /\ EndsWith(memory'.summary, memcall'.summary)]_vars

\* C24: when the summarizer raises during the compaction of a turn, the summary is
\* left as it was, the stored messages become their last max_messages (all of them
\* when there are fewer), and the turn goes on to its first checkpoint and its first
\* message instead of its failure path.
C24_SummarizerFailureFallsBackToWindow ==
    [][\A s \in Slots :
          (turn[s].pc = "summarize" /\ tinfo'[turn[s].id].compaction = "failed") =>
              LET id == turn[s].id
                  old == memory.messages
                  new == memory'.messages
                  n == IF Len(old) > max_messages THEN max_messages ELSE Len(old)
              IN /\ memory'.summary = memory.summary
                 /\ Len(new) = n
                 /\ \A k \in 1..n : new[k] = old[Len(old) - n + k]
                 /\ turn'[s].pc = "thinking"
                 /\ tinfo'[id].out = << Msg("thinking") >>
                 /\ ~tinfo'[id].llm_failed]_vars

\* The summarizer has failed in every compaction so far, and the fallback of the
\* turn in flight has removed the oldest message.
C24_FallbackTruncated ==
    /\ \A id \in Turns : tinfo[id].compaction # "done"
    /\ \E s \in Slots : /\ turn[s].pc = "thinking"
                        /\ tinfo[turn[s].id].compaction = "failed"
    /\ Len(memory.messages) = max_messages
    /\ memory.messages[1].timestamp > 1

\* C29: a turn whose signal is set when it reaches its first checkpoint (the signal
\* was set while the turn awaited the summarizer) writes nothing to the client,
\* opens no LLM stream, starts no synthesis call, and writes nothing to the memory
\* after its user message.
C29_EarlyAbortReturnsSilently ==
    \A id \in Turns :
        tinfo[id].early_abort =>
            /\ tinfo[id].out = <<>>
            /\ \A k \in DOMAIN tinfo[id].calls : tinfo[id].calls[k].kind = "summarize"
            /\ tinfo[id].writes = << [role |-> "user", content |-> tinfo[id].user_message] >>

\* A turn whose signal was set during the summarizer call has returned.
C29_ReturnedAtFirstCheckpoint ==
    \E id \in Turns :
        /\ tinfo[id].early_abort
        /\ tinfo[id].compaction = "done"
        /\ tinfo[id].done

\* C25: an on_stt_error task calls connect at most max_attempts (5) times and not
\* again after a call has succeeded; it writes the terminal error to the client only
\* when five calls have failed; and none of its steps changes the utterance buffer,
\* ends the message loop, or removes the session's records.
C25_ReconnectIsBoundedAndHarmless ==
    /\ [](\A h \in Handlers :
            LET r == reconnects[h]
            IN /\ r.attempts <= max_attempts
               /\ r.succeeded => (r.pc = "done" /\ r.failures = r.attempts - 1)
               /\ (\E k \in DOMAIN r.out : r.out[k] = "failed") =>
                     (r.failures = max_attempts /\ ~r.succeeded))
    /\ [][\A h \in Handlers :
             reconnects'[h] # reconnects[h] =>
                 /\ utterance_buffer' = utterance_buffer
                 /\ mainpc' = mainpc
                 /\ is_processing' = is_processing
                 /\ memory' = memory
                 /\ reconnects[h].succeeded => reconnects'[h].attempts = reconnects[h].attempts]_vars

\* Five attempts have failed and the terminal error has been written, while a
\* fragment waits in the buffer and the message loop goes on.
C25_AllAttemptsFailed ==
    \E h \in Handlers :
        /\ reconnects[h].failures = max_attempts
        /\ reconnects[h].out = << "reconnecting", "failed" >>
        /\ utterance_buffer # <<>>
        /\ mainpc = "loop"

\* C26: the nominal delay before reconnect attempt k is 1, 2, 4, 8, 10 seconds for
\* k = 1..5: it doubles from 1 second and is capped at 10.
C26_DelaysDoubleToTen ==
    \A h \in Handlers : \A k \in DOMAIN reconnects[h].delays :
        /\ k <= 5
        /\ reconnects[h].delays[k] = << 1, 2, 4, 8, 10 >>[k]
        /\ reconnects[h].delays[k] = (IF 2 ^ (k - 1) < 10 THEN 2 ^ (k - 1) ELSE 10)

\* The fifth attempt is waiting out its delay.
C26_FifthAttemptSleeping ==
    \E h \in Handlers :
        /\ reconnects[h].pc = "sleep"
        /\ reconnects[h].attempt = 5
        /\ Len(reconnects[h].delays) = 5

HasError(id) == \E k \in DOMAIN tinfo[id].out : IsError(tinfo[id].out[k])

\* A call through _with_retry is attempted at most four times, returns at the first
\* attempt at which the remote call returns, and fails when none of the four does.
AttemptsBounded ==
    \A id \in Turns : \A k \in DOMAIN tinfo[id].tries :
        LET e == tinfo[id].tries[k]
        IN /\ e.attempts <= 4
           /\ e.first \in 1..4 => (e.ok /\ e.attempts = e.first)
           /\ e.first \notin 1..4 => (~e.ok /\ e.attempts = 4)

\* C27 as stated: a TTS or LLM call is attempted at most four times, stopping at
\* the first success, and when all the attempts of a call fail an error is written
\* to the client and the session goes on.
C27_ExhaustedRetriesSendError ==
    /\ AttemptsBounded
    /\ \A id \in Turns :
          (tinfo[id].done /\ \E k \in DOMAIN tinfo[id].tries : ~tinfo[id].tries[k].ok)
              => HasError(id)

\* C27, amended: a TTS or LLM call is attempted at most four times, stopping at the
\* first success; an error is written to the client when no attempt to create the
\* LLM stream succeeds (or the stream breaks), and is not written when all the
\* attempts of a synthesis call or of the summarizer fail; in each case the turn
\* ends, is_processing is reset and the session's records stay.
C27_ExhaustedStreamRetriesSendError ==
    /\ AttemptsBounded
    /\ \A id \in Turns :
          /\ \A k \in DOMAIN tinfo[id].tries :
                (tinfo[id].tries[k].kind = "llm" /\ ~tinfo[id].tries[k].ok)
                    => tinfo[id].llm_failed
          /\ tinfo[id].done => (HasError(id) <=> tinfo[id].llm_failed)
    /\ mainpc = "loop" /\ memory.exists /\ metrics.exists
    /\ InFlight = {} => ~is_processing

\* A turn has ended in which a synthesis call succeeded at its fourth attempt and
\* another failed at all four, and the stream was created at the first.
C27_SynthesisGaveUp ==
    \E id \in Turns :
        /\ tinfo[id].done
        /\ ~tinfo[id].llm_failed
        /\ \E k \in DOMAIN tinfo[id].tries :
              /\ tinfo[id].tries[k].kind = "loop"
              /\ ~tinfo[id].tries[k].ok
              /\ tinfo[id].tries[k].attempts = 4
        /\ \E k \in DOMAIN tinfo[id].tries :
              /\ tinfo[id].tries[k].kind = "last"
              /\ tinfo[id].tries[k].ok
              /\ tinfo[id].tries[k].attempts = 4

(***************************************************************************)
(* C30: within one request the first-LLM-token mark and the first-TTS-audio *)
(* mark of a session are written at most once: while the request is the     *)
(* current one, a mark that is set keeps its value whatever call is made.   *)
(***************************************************************************)
C30_FirstMarksWrittenOnce ==
    [][\A sid \in DOMAIN registry.metrics \cap DOMAIN registry'.metrics :
          LET c == registry.metrics[sid].cur
              d == registry'.metrics[sid].cur
          IN c.start # 0 /\ d.start = c.start
                => /\ c.llm1 # 0 => d.llm1 = c.llm1
                   /\ c.tts1 # 0 => d.tts1 = c.tts1]_vars

\* mark_tts_first_chunk has been called on a request whose mark was set.
C30_SecondMarkIgnored ==
    /\ memcall.op = "mark" /\ memcall.key = "tts1" /\ memcall.before # 0
    /\ memcall.sid \in DOMAIN registry.metrics
    /\ registry.metrics[memcall.sid].cur.tts1 = memcall.before

(***************************************************************************)
(* C28: a call on the conversation memory or the latency tracker that       *)
(* carries session id A leaves the memory record and the latency record of  *)
(* every other session id unchanged, in every interleaving of the calls of  *)
(* the sessions.                                                            *)
(***************************************************************************)
C28_OtherSessionsUnchanged ==
    [][\A b \in Sids \ {memcall'.sid} :
          /\ b \in DOMAIN registry'.memory <=> b \in DOMAIN registry.memory
          /\ b \in DOMAIN registry'.metrics <=> b \in DOMAIN registry.metrics
          /\ b \in DOMAIN registry.memory => registry'.memory[b] = registry.memory[b]
          /\ b \in DOMAIN registry.metrics => registry'.metrics[b] = registry.metrics[b]]_vars

\* A compaction of one session has completed, and another session was created
\* while it was suspended in summarize_fn.
C28_CompactedNextToLiveSession ==
    /\ memcall.op = "summarize_fn"
    /\ memcall.sid \in DOMAIN registry.memory
    /\ registry.memory[memcall.sid].summary # <<>>
    /\ \E b \in (DOMAIN registry.memory \cap DOMAIN registry.metrics) \ {memcall.sid} :
          /\ \A k \in 1..Len(registry.memory[memcall.sid].messages) :
                registry.memory[b].created_at
                   > registry.memory[memcall.sid].messages[k].timestamp

\* The key of cur each stage's latency is the delta of.
MarkOf ==
    [ stt |-> "stt", llm_first_token |-> "llm1", llm_complete |-> "llmc",
      tts_first_chunk |-> "tts1", end_to_end |-> "ttsc" ]

(***************************************************************************)
(* C31: a mark or finalize call for a session id without a record, or with  *)
(* a record that has no current request, changes nothing; finalizing a      *)
(* request gives a null delta for every stage whose mark is missing, leaves *)
(* that stage's running total as it was, raises no error and ends the       *)
(* request.                                                                 *)
(***************************************************************************)
C31_RecordingNeverFails ==
    [][memcall'.op \in {"mark", "finalize_request"}
          => LET sid == memcall'.sid
                 known == sid \in DOMAIN registry.metrics
             IN IF ~known \/ registry.metrics[sid].cur.start = 0
                THEN registry' = registry /\ clock' = clock
                ELSE memcall'.op = "finalize_request"
                        => LET m == registry.metrics[sid]
                               lat == Latencies(m.cur)
                           IN /\ \A stage \in DOMAIN lat :
                                    /\ ~lat[stage].raised
                                    /\ m.cur[MarkOf[stage]] = 0
                                          => /\ lat[stage].null
                                             /\ registry'.metrics[sid].totals[stage]
                                                   = m.totals[stage]
                              /\ registry'.metrics[sid].cur = NoRequest]_vars

\* A request with its speech-recognition mark missing and its end mark set has
\* been finalized.
C31_FinalizedWithMissingMark ==
    /\ memcall.op = "finalize_request" /\ memcall.before = 0
    /\ memcall.sid \in DOMAIN registry.metrics
    /\ registry.metrics[memcall.sid].n = 1
    /\ registry.metrics[memcall.sid].cur = NoRequest
    /\ registry.metrics[memcall.sid].totals.stt = 0
    /\ registry.metrics[memcall.sid].totals.end_to_end > 0

(***************************************************************************)
(* C32: a transcript event with non-blank text, interim or final, that      *)
(* arrives while a turn is in flight leaves the cancellation signal of      *)
(* every turn in flight set; one that arrives while no turn is in flight    *)
(* sets no signal.                                                          *)
(***************************************************************************)
C32_SpeechDuringTurnSetsSignal ==
    [][(Len(txq') = Len(txq) + 1 /\ evLeft' = evLeft - 1)
          => LET r == txq'[Len(txq')]
             IN /\ (InFlight # {} /\ Strip(r.text) # <<>>)
                      => \A s \in InFlight : turn[s].id \in evset'
                /\ InFlight = {} => evset' = evset]_vars

\* The two events were a final transcript that started a turn and an interim
\* transcript, not yet echoed to the client, that arrived during the turn.
C32_InterimInterrupted ==
    /\ evLeft = 0
    /\ txq # <<>> /\ ~txq[Len(txq)].is_final
    /\ \E s \in InFlight : turn[s].id \in evset

\* The places in what the turn wrote to the client of the messages of a type.
PlacesOf(id, type) == { k \in DOMAIN tinfo[id].out : tinfo[id].out[k].type = type }

\* In what a turn wrote, each audio_start is followed by exactly one audio_end and
\* every audio frame lies between an audio_start and its audio_end.
Bracketed(id) ==
    /\ \A a \in PlacesOf(id, "audio_start") :
          Cardinality({ e \in PlacesOf(id, "audio_end") : e > a }) = 1
    /\ \A f \in PlacesOf(id, "audio") :
          \E a \in PlacesOf(id, "audio_start") :
              /\ a < f
              /\ \E e \in PlacesOf(id, "audio_end") : f < e

(***************************************************************************)
(* C33 as stated: when a turn has ended, however it ended, each audio_start *)
(* it sent is followed by exactly one audio_end and each of its audio       *)
(* frames was sent after its audio_start and before that audio_end (the     *)
(* connection being open).                                                  *)
(***************************************************************************)
C33_AudioBracketedOnEveryOutcome ==
    \A id \in Turns : (tinfo[id].done /\ mainpc = "loop") => Bracketed(id)

\* C34: once the cleanup of the session has run, after an 'end' message or after
\* the client closed the connection, the STT connection is closed and stays
\* closed, whatever an on_stt_error task that started earlier is doing.
C34_ClosedAfterCleanup == mainpc = "closed" => ~stt.is_connected

\* C35: an STT client has at most one keep-alive task at any time, also while
\* several on_stt_error tasks reconnect it.
C35_AtMostOneKeepalive == Cardinality(stt.tasks) <= 1

\* The turns whose latency record was folded into the running totals
FinalizedTurns == { id \in Turns : tinfo[id].finalized }

\* C36: when no turn is in flight, the request count of get_session_stats is the
\* number of turns whose latency record was finalized and folded into the totals.
C36_CountIsFinalizedTurns ==
    (InFlight = {} /\ metrics.exists) =>
        get_session_stats(S).request_count = Cardinality(FinalizedTurns)

\* C37: every latency that finalize_request folds into the running totals is
\* non-negative, the timestamps being non-decreasing.
C37_LatenciesNonNegative ==
    [][(metrics.exists /\ metrics'.exists /\ metrics'.totals # metrics.totals) =>
          \A key \in DOMAIN metrics.totals : metrics'.totals[key] >= metrics.totals[key]]_vars

\* A text without its whitespace
Unspaced(text) == SelectSeq(text, LAMBDA c : ~IsSpace(c))

\* A turn that has returned and was neither cancelled nor ended by a failure of the
\* LLM stream, on a connection that is open.
Completed(id) ==
    /\ tinfo[id].done
    /\ id \notin evset
    /\ ~tinfo[id].llm_failed
    /\ ~ConnectionClosed(S)
    /\ memory.exists

\* C38: in a turn that completes without cancellation, the sentences handed to
\* synthesis, the trailing one included, are in order and whitespace apart the full
\* response, which is the text written to the memory and sent in the response
\* message; no sentence handed to synthesis is empty or blank.
C38_SentencesCoverResponse ==
    \A id \in Turns :
        Completed(id) =>
            LET full == tinfo[id].full_response
            IN /\ Unspaced(Flatten(SynthesizedTexts(id))) = Unspaced(full)
               /\ \A k \in DOMAIN SynthesizedTexts(id) : Strip(SynthesizedTexts(id)[k]) # <<>>
               /\ full = Flatten(tinfo[id].tokens)
               /\ Strip(full) # <<>> =>
                      /\ AssistantWrites(id) = << [role |-> "assistant", content |-> full] >>
                      /\ tinfo[id].out[Len(tinfo[id].out)].type = "response"
                      /\ tinfo[id].out[Len(tinfo[id].out)].text = full

\* A completed turn handed two sentences to synthesis, the second by the trailing
\* flush, and whitespace of the response is in neither.
C38_TwoSentencesAndFlush ==
    \E id \in Turns :
        /\ Completed(id)
        /\ Len(Syntheses(id)) = 2
        /\ Syntheses(id)[2].kind = "last"
        /\ Len(Flatten(SynthesizedTexts(id))) < Len(tinfo[id].full_response)

\* C39: whatever the history, _to_anthropic_messages returns a list that is not
\* empty, starts with a user message, holds no system message and alternates
\* between the user and assistant roles.
C39_AnthropicMessagesAlternate ==
    memcall.op = "_to_anthropic_messages" =>
        LET ret == memcall.ret
        IN /\ ret # <<>>
           /\ ret[1].role = "user"
           /\ \A k \in DOMAIN ret : ret[k].role \in {"user", "assistant"}
           /\ \A k \in 1..(Len(ret) - 1) : ret[k].role # ret[k + 1].role
====
